---- MODULE Spec2Model ----
(***************************************************************************)
(* Session-synchronized derived-data pipeline of Project_AG_V1:            *)
(* CandleBuilder (data/candle_builder.py), SessionBoundaryDetector         *)
(* (core/session/session_boundary_detector.py) and DummyStrategy           *)
(* (strategy/dummy_strategy.py).                                           *)
(*                                                                         *)
(* Python objects that are shared by reference (candle dicts, the          *)
(* SessionContext dataclass) live in heaps: a heap is a sequence of        *)
(* records and a reference is an index into it, 0 standing for None.       *)
(* Timestamps are integers: seconds for ticks, half days for closed        *)
(* candles.                                                                *)
(***************************************************************************)
EXTENDS Integers, Sequences, FiniteSets, TLC

\* ------------------------------------------------------------------------
\* Bounds of the model
\* ------------------------------------------------------------------------
MaxTicks == 3
MaxCandles == 4
MaxInputs == 3
MaxOps == 3

Symbols == {"A", "B"}
Prices == {1, 2}
Volumes == {1, 2}
\* tick timestamps, in seconds after a full minute; 60 is the end of the first minute
TickTimes == {10, 40, 60, 95, 130}
\* the timeframe argument of CandleBuilder(...), in seconds
Timeframes == {30, 60, 90}

\* two runs on fresh component instances, fed the same inputs
Runs == {1, 2}
\* what datetime.now() returns to the two runs while they handle the same input:
\* the runs are made at different times
WallReadings == {<<1, 2>>, <<2, 1>>}
\* readings of the system clock
WallTimes == {1, 2}
\* gap_pct_abs values of a gap snapshot, in tenths of a percent
GapValues == {5, 15}
\* the handlers subscribed to the session events on the bus
Handlers == {"h1", "h2"}
\* timestamps are counted in half days: the date of timestamp t is t \div SlotsPerDay
SlotsPerDay == 2
\* closed-candle timestamps: two on each of three consecutive dates
CandleTimes == {2, 3, 4, 5, 6, 7}

\* the symbols a universe is configured from
UniverseSymbols == {"A", "B", "C"}
\* the configurations: config.symbol_universe (a list of distinct symbols),
\* config.manually_omitted_symbols (None counts as the empty set) and
\* DERIVED_CFG["top_n"] (the default 5, or a value below the universe's size)
Configs ==
    {[symbol_universe |-> <<"A", "B", "C">>, manually_omitted_symbols |-> {}, top_n |-> 5],
     [symbol_universe |-> <<"A", "B", "C">>, manually_omitted_symbols |-> {}, top_n |-> 2],
     [symbol_universe |-> <<"C", "A", "B">>, manually_omitted_symbols |-> {"A"}, top_n |-> 1],
     [symbol_universe |-> <<"B", "A">>, manually_omitted_symbols |-> {}, top_n |-> 5],
     [symbol_universe |-> <<"C", "B", "A">>, manually_omitted_symbols |-> {"A", "B", "C"},
      top_n |-> 5]}
\* the orders in which a process iterates over a set of these strings (hash order)
HashOrders == {<<"A", "B", "C">>, <<"C", "A", "B">>}
\* previous-day rows of the OHLC table, by their CPR width: 0 (with closes 100 and
\* 200), 0.0666..%, exactly 0.25% (the threshold) and 12.5%
RowZero == [high |-> 110, low |-> 90, close |-> 100]
RowZero200 == [high |-> 220, low |-> 180, close |-> 200]
RowNarrow == [high |-> 1010, low |-> 990, close |-> 1001]
RowAtThreshold == [high |-> 401, low |-> 398, close |-> 401]
RowWide == [high |-> 150, low |-> 50, close |-> 120]
\* today_open of the session that starts
TodayOpens == {101, 210}
\* the timestamps of the sessions' first candles
SessionStartTimes == {2, 4}

None == 0

Max(a, b) == IF a >= b THEN a ELSE b
Min(a, b) == IF a <= b THEN a ELSE b

\* ------------------------------------------------------------------------
\* State
\* ------------------------------------------------------------------------
VARIABLES
    \* CandleBuilder
    timeframe,          \* self._timeframe
    current_candles,    \* self._current_candles: symbol -> reference into candle_heap
    candle_heap,        \* every candle dict ever created
    tick_result,        \* what process_tick returned for the last tick
    bus_log,            \* what _on_tick published for the last tick, in order
    closed_log,         \* the candles published as CandleClosedEvent, in order
    \* history of the CandleBuilder run
    n_ticks,            \* ticks processed so far
    last_tick,          \* the last tick processed, with the symbol's candle before it
    open_ticks,         \* symbol -> ticks folded into its open candle
    closed_ticks,       \* ticks folded into the candle closed by the last tick
    closed_snapshot,    \* closed_snapshot[k]: the fields of closed_log[k] when it was published
    tick_volume,        \* symbol -> the sum of the volumes of its ticks processed so far
    \* the environment of the two runs
    subscribers,        \* run -> the handlers of the session events, in the order the bus stores them
    \* SessionBoundaryDetector, one fresh instance per run: sbd[run] has
    \*   det          the detector's fields
    \*   ctx_heap     every SessionContext ever created
    \*   published    the events on_candle_closed published for the last candle
    \*   delivered    the (handler, event) calls the bus made for the last candle
    \*   kept         the SessionStartEvents a consumer kept, with the fields it saw
    \*   session_log  the types of all session events published, in order
    sbd,
    \* history of the SessionBoundaryDetector runs (both runs get the same candles)
    \* DummyStrategy, one fresh instance per run: strat[run] has
    \*   active_symbol, step_index, active_intent_id, active   the strategy's fields
    \*   published    the IntentEvents published for the last input
    \*   n_published  the number of IntentEvents published so far
    strat,
    auto_advance,       \* the auto_advance argument both strategies were built with
    known_ids,          \* the intent ids published so far, by either run
    n_inputs,           \* events delivered to the strategies so far
    last_input,         \* the last event delivered
    cfg,                \* config.py: symbol_universe, manually_omitted_symbols, top_n
    hash_order,         \* the order in which this process iterates over a set of symbols
    ddp,                \* DerivedDataProcessor: _effective_universe,
                        \* _symbols_missing_prev_day_ohlc, _filtered_records, _tradable_records
    store,              \* InMemoryDerivedDataStore: _symbols, universe_snapshots, gap_snapshots
    ddp_published,      \* the events the processor published in its last operation
    ddp_last,           \* the last operation: op, its inputs, whether it raised
    pm_runs,            \* the last two run_pre_market calls that returned since the
                        \* universe was last changed: the table and the snapshot's lists
    n_ops,              \* operations of the processor so far
    store_last,         \* the last call of the store's interface: its arguments and result
    \* EventBus
    eb_subscribers,     \* self._subscribers: event_type -> handlers, in subscription order
    eb_calls,           \* the handler calls made during the last publish, in order
    eb_last,            \* the last call of the bus's interface
    \* ReplayLoader and its ReplayClock
    rl_ticks,           \* self._ticks: the ticks the iterator has not yet yielded
    rl_clock,           \* ReplayClock._current_time
    rl_last,            \* the last replay_next call: what it returned and what the
                        \* subscribers were called with and read from the clock
    rl_archive,         \* the recorded ticks the loader was built with
    rl_published,       \* the ticks published so far, in order
    n_candles,          \* closed candles processed so far
    cur_session,        \* what the candles of the active session were (SessionHistory)
    prev_session,       \* right after a date change: the same for the session that ended
    \* the components wired to one bus: wired has
    \*   det, heap   the SessionBoundaryDetector's fields and its SessionContexts
    \*   ddp, store  the DerivedDataProcessor and its InMemoryDerivedDataStore
    \*   strat       the DummyStrategy's fields
    wired,
    pl_log,             \* the publish calls of the last operation and their returns, in order
    pl_last,            \* the last operation and the number of sessions started before it
    pl_steps            \* operations on the wired components so far

cb_vars == <<timeframe, current_candles, candle_heap, tick_result, bus_log,
             closed_log, n_ticks, last_tick, open_ticks, closed_ticks,
             closed_snapshot, tick_volume>>

sd_vars == <<subscribers, sbd, n_candles, cur_session, prev_session>>

st_vars == <<strat, auto_advance, known_ids, n_inputs, last_input>>

dp_vars == <<cfg, hash_order, ddp, store, ddp_published, ddp_last, pm_runs, n_ops>>

ds_vars == <<store_last>>

eb_vars == <<eb_subscribers, eb_calls, eb_last>>

rl_vars == <<rl_ticks, rl_clock, rl_last, rl_archive, rl_published>>

pl_vars == <<wired, pl_log, pl_last, pl_steps>>

vars == <<cb_vars, sd_vars, st_vars, dp_vars, ds_vars, eb_vars, rl_vars, pl_vars>>

\* ------------------------------------------------------------------------
\* CandleBuilder
\* ------------------------------------------------------------------------
SecondsPerMinute == 60

Ticks == [symbol : Symbols, price : Prices, volume : Volumes, timestamp : TickTimes]

\* candle_start = timestamp.replace(second=0, microsecond=0)
CandleStart(timestamp) == timestamp - (timestamp % SecondsPerMinute)

\* candle_end = candle_start + self._timeframe
CandleEnd(timestamp, tf) == CandleStart(timestamp) + tf

\* the dict literal of Case 1 and Case 3
NewCandle(tick, tf) ==
    [symbol |-> tick.symbol,
     timeframe |-> "1m",
     start_time |-> CandleStart(tick.timestamp),
     end_time |-> CandleEnd(tick.timestamp, tf),
     open |-> tick.price,
     high |-> tick.price,
     low |-> tick.price,
     close |-> tick.price,
     volume |-> tick.volume]

\* Case 2 with the volume overwritten by the tick's
UpdateCandleLastVolume(c, tick) ==
    [c EXCEPT !.high = Max(c.high, tick.price),
              !.low = Min(c.low, tick.price),
              !.close = tick.price,
              !.volume = tick.volume]

\* Case 2: the in-place update of the current candle
UpdateCandle(c, tick) ==
    [c EXCEPT !.high = Max(c.high, tick.price),
              !.low = Min(c.low, tick.price),
              !.close = tick.price,
              !.volume = c.volume + tick.volume]

\* (mutant) a tick at exactly end_time still counts into the current candle
TickInCurrentInclusive(c, tick) == tick.timestamp <= c.end_time

\* Case 2's condition: timestamp < current["end_time"]
TickInCurrent(c, tick) == tick.timestamp < c.end_time

\* process_tick with one current candle for all symbols
process_tick_one_candle(tick) ==
    LET cur == current_candles["A"] IN
    IF cur = None
    THEN /\ candle_heap' = Append(candle_heap, NewCandle(tick, timeframe))
         /\ current_candles' = [current_candles EXCEPT !["A"] = Len(candle_heap) + 1]
         /\ tick_result' = [update |-> Len(candle_heap) + 1, closed |-> None]
    ELSE IF TickInCurrent(candle_heap[cur], tick)
    THEN /\ candle_heap' = [candle_heap EXCEPT ![cur] = UpdateCandle(candle_heap[cur], tick)]
         /\ current_candles' = current_candles
         /\ tick_result' = [update |-> cur, closed |-> None]
    ELSE /\ candle_heap' = Append(candle_heap, NewCandle(tick, timeframe))
         /\ current_candles' = [current_candles EXCEPT !["A"] = Len(candle_heap) + 1]
         /\ tick_result' = [update |-> Len(candle_heap) + 1, closed |-> cur]

\* process_tick: the three cases, as the next values of the builder's state
process_tick(tick) ==
    LET cur == current_candles[tick.symbol] IN
    IF cur = None
    THEN /\ candle_heap' = Append(candle_heap, NewCandle(tick, timeframe))
         /\ current_candles' = [current_candles EXCEPT ![tick.symbol] = Len(candle_heap) + 1]
         /\ tick_result' = [update |-> Len(candle_heap) + 1, closed |-> None]
    ELSE IF TickInCurrent(candle_heap[cur], tick)
    THEN /\ candle_heap' = [candle_heap EXCEPT ![cur] = UpdateCandle(candle_heap[cur], tick)]
         /\ current_candles' = current_candles
         /\ tick_result' = [update |-> cur, closed |-> None]
    ELSE /\ candle_heap' = Append(candle_heap, NewCandle(tick, timeframe))
         /\ current_candles' = [current_candles EXCEPT ![tick.symbol] = Len(candle_heap) + 1]
         /\ tick_result' = [update |-> Len(candle_heap) + 1, closed |-> cur]

\* (mutant) the closed candle is published before the update
OnTickPublishesClosedFirst(result) ==
    (IF result.closed # None
     THEN <<[type |-> "CandleClosedEvent", payload |-> result.closed]>>
     ELSE <<>>)
    \o <<[type |-> "CandleUpdateEvent", payload |-> result.update]>>

\* what _on_tick publishes for a process_tick result, in order
OnTickPublishes(result) ==
    <<[type |-> "CandleUpdateEvent", payload |-> result.update]>>
    \o (IF result.closed # None
        THEN <<[type |-> "CandleClosedEvent", payload |-> result.closed]>>
        ELSE <<>>)

ClosedPayloads(log) ==
    SelectSeq(log, LAMBDA e : e.type = "CandleClosedEvent")

\* the last timestamp seen for a symbol (None before its first tick)
LastTimestamp(symbol) ==
    IF open_ticks[symbol] = <<>> THEN None
    ELSE open_ticks[symbol][Len(open_ticks[symbol])].timestamp

\* _on_tick: the handler of "TickEvent"
OnTick(tick) ==
    /\ n_ticks < MaxTicks
    /\ tick.timestamp >= LastTimestamp(tick.symbol)
    /\ process_tick(tick)
    /\ bus_log' = OnTickPublishes(tick_result')
    /\ closed_log' = closed_log \o
          [i \in 1..Len(ClosedPayloads(bus_log')) |-> ClosedPayloads(bus_log')[i].payload]
    /\ n_ticks' = n_ticks + 1
    /\ last_tick' = [tick |-> tick,
                     open_before |-> current_candles[tick.symbol],
                     end_before |-> IF current_candles[tick.symbol] = None THEN None
                                    ELSE candle_heap[current_candles[tick.symbol]].end_time]
    /\ closed_ticks' = IF tick_result'.closed # None THEN open_ticks[tick.symbol] ELSE <<>>
    /\ open_ticks' = [open_ticks EXCEPT ![tick.symbol] =
                         IF tick_result'.update = current_candles[tick.symbol]
                         THEN Append(@, tick) ELSE <<tick>>]
    /\ closed_snapshot' = closed_snapshot \o
          [i \in 1..Len(ClosedPayloads(bus_log')) |->
              candle_heap'[ClosedPayloads(bus_log')[i].payload]]
    /\ tick_volume' = [tick_volume EXCEPT ![tick.symbol] = @ + tick.volume]
    /\ UNCHANGED <<timeframe, sd_vars, st_vars, dp_vars, ds_vars, eb_vars, rl_vars, pl_vars>>

CbNext == \E tick \in Ticks : OnTick(tick)

\* ------------------------------------------------------------------------
\* SessionBoundaryDetector
\* ------------------------------------------------------------------------
\* a CandleClosedEvent as the detector reads it: timestamp, open, high, low, close
Candles ==
    {c \in [timestamp : CandleTimes, open : Prices, high : Prices,
            low : Prices, close : Prices] :
        /\ c.low <= c.open /\ c.open <= c.high
        /\ c.low <= c.close /\ c.close <= c.high}

\* candle_date = candle_ts.date()
CandleDate(candle_ts) == candle_ts \div SlotsPerDay

\* the SessionContext(...) constructor call
SessionContext(session_date, start_ts, today_open, po, ph, pl, pc) ==
    [session_date |-> session_date,
     session_start_timestamp |-> start_ts,
     session_end_timestamp |-> None,
     today_open |-> today_open,
     prev_day_open |-> po,
     prev_day_high |-> ph,
     prev_day_low |-> pl,
     prev_day_close |-> pc]

\* an event object handed to the bus; fields is the context as it is at that moment
SessionEvent(type, timestamp, ref, heap) ==
    [type |-> type, timestamp |-> timestamp, session_context |-> ref, fields |-> heap[ref]]

\* (mutant) the event is stamped with the clock's reading
StartEventTimestampNow(candle_ts, now) == now

\* the timestamp of a SessionStartEvent: the candle's (now, the clock, is not read)
StartEventTimestamp(candle_ts, now) == candle_ts

\* (mutant) the SessionEndEvent is stamped with the clock's reading
EndEventTimestampNow(last_candle_timestamp, now) == now

\* the timestamp the detector gives a SessionEndEvent
EndEventTimestamp(last_candle_timestamp, now) == last_candle_timestamp

\* (mutant) the bootstrap takes the candle's close for today_open
BootstrapOpenFromClose(d, heap, candle, now) ==
    LET candle_ts == candle.timestamp
        candle_date == CandleDate(candle_ts)
        ref == Len(heap) + 1
        heap1 == Append(heap, SessionContext(candle_date, candle_ts, candle.close,
                                             candle.open, candle.high, candle.low, candle.close))
    IN [det |-> [active_session_date |-> candle_date,
                 active_session_context |-> ref,
                 prev_day_open |-> candle.open,
                 prev_day_high |-> candle.high,
                 prev_day_low |-> candle.low,
                 prev_day_close |-> candle.close,
                 last_candle_timestamp |-> candle_ts],
        heap |-> heap1,
        published |-> <<SessionEvent("SessionStartEvent",
                                     StartEventTimestamp(candle_ts, now), ref, heap1)>>]

\* CASE 1: first candle ever (bootstrap)
Bootstrap(d, heap, candle, now) ==
    LET candle_ts == candle.timestamp
        candle_date == CandleDate(candle_ts)
        ref == Len(heap) + 1
        heap1 == Append(heap, SessionContext(candle_date, candle_ts, candle.open,
                                             candle.open, candle.high, candle.low, candle.close))
    IN [det |-> [active_session_date |-> candle_date,
                 active_session_context |-> ref,
                 prev_day_open |-> candle.open,
                 prev_day_high |-> candle.high,
                 prev_day_low |-> candle.low,
                 prev_day_close |-> candle.close,
                 last_candle_timestamp |-> candle_ts],
        heap |-> heap1,
        published |-> <<SessionEvent("SessionStartEvent",
                                     StartEventTimestamp(candle_ts, now), ref, heap1)>>]

\* (mutant) the rolling high is overwritten by the candle's high
SameSessionLastHigh(d, heap, candle) ==
    [det |-> [d EXCEPT !.prev_day_high = candle.high,
                       !.prev_day_low = Min(d.prev_day_low, candle.low),
                       !.prev_day_close = candle.close,
                       !.last_candle_timestamp = candle.timestamp],
     heap |-> heap,
     published |-> <<>>]

\* CASE 2: same session, rolling update of the previous-day OHLC candidate
SameSession(d, heap, candle) ==
    [det |-> [d EXCEPT !.prev_day_high = Max(d.prev_day_high, candle.high),
                       !.prev_day_low = Min(d.prev_day_low, candle.low),
                       !.prev_day_close = candle.close,
                       !.last_candle_timestamp = candle.timestamp],
     heap |-> heap,
     published |-> <<>>]

\* (mutant) the date change starts the new session without ending the old one
DateChangeWithoutEnd(d, heap, candle, now) ==
    LET candle_ts == candle.timestamp
        candle_date == CandleDate(candle_ts)
        ref == Len(heap) + 1
        heap2 == Append(heap, SessionContext(candle_date, candle_ts, candle.open,
                                             d.prev_day_open, d.prev_day_high,
                                             d.prev_day_low, d.prev_day_close))
    IN [det |-> [active_session_date |-> candle_date,
                 active_session_context |-> ref,
                 prev_day_open |-> candle.open,
                 prev_day_high |-> candle.high,
                 prev_day_low |-> candle.low,
                 prev_day_close |-> candle.close,
                 last_candle_timestamp |-> candle_ts],
        heap |-> heap2,
        published |-> <<SessionEvent("SessionStartEvent",
                                     StartEventTimestamp(candle_ts, now), ref, heap2)>>]

\* (mutant) the date change publishes the new session's start before the old one's end
DateChangeStartsFirst(d, heap, candle, now) ==
    LET candle_ts == candle.timestamp
        candle_date == CandleDate(candle_ts)
        old == d.active_session_context
        \* self._active_session_context.session_end_timestamp = self._last_candle_timestamp
        heap1 == [heap EXCEPT ![old].session_end_timestamp = d.last_candle_timestamp]
        end_event == SessionEvent("SessionEndEvent",
                                  EndEventTimestamp(d.last_candle_timestamp, now), old, heap1)
        ref == Len(heap1) + 1
        heap2 == Append(heap1, SessionContext(candle_date, candle_ts, candle.open,
                                              d.prev_day_open, d.prev_day_high,
                                              d.prev_day_low, d.prev_day_close))
        start_event == SessionEvent("SessionStartEvent",
                                    StartEventTimestamp(candle_ts, now), ref, heap2)
    IN [det |-> [active_session_date |-> candle_date,
                 active_session_context |-> ref,
                 prev_day_open |-> candle.open,
                 prev_day_high |-> candle.high,
                 prev_day_low |-> candle.low,
                 prev_day_close |-> candle.close,
                 last_candle_timestamp |-> candle_ts],
        heap |-> heap2,
        published |-> <<start_event, end_event>>]

\* CASE 3: the date has changed
DateChange(d, heap, candle, now) ==
    LET candle_ts == candle.timestamp
        candle_date == CandleDate(candle_ts)
        old == d.active_session_context
        \* self._active_session_context.session_end_timestamp = self._last_candle_timestamp
        heap1 == [heap EXCEPT ![old].session_end_timestamp = d.last_candle_timestamp]
        end_event == SessionEvent("SessionEndEvent",
                                  EndEventTimestamp(d.last_candle_timestamp, now), old, heap1)
        ref == Len(heap1) + 1
        heap2 == Append(heap1, SessionContext(candle_date, candle_ts, candle.open,
                                              d.prev_day_open, d.prev_day_high,
                                              d.prev_day_low, d.prev_day_close))
        start_event == SessionEvent("SessionStartEvent",
                                    StartEventTimestamp(candle_ts, now), ref, heap2)
    IN [det |-> [active_session_date |-> candle_date,
                 active_session_context |-> ref,
                 prev_day_open |-> candle.open,
                 prev_day_high |-> candle.high,
                 prev_day_low |-> candle.low,
                 prev_day_close |-> candle.close,
                 last_candle_timestamp |-> candle_ts],
        heap |-> heap2,
        published |-> <<end_event, start_event>>]

\* on_candle_closed: the detector's fields, the contexts and the events after one candle
on_candle_closed(d, heap, candle, now) ==
    IF d.active_session_date = None THEN Bootstrap(d, heap, candle, now)
    ELSE IF CandleDate(candle.timestamp) = d.active_session_date
    THEN SameSession(d, heap, candle)
    ELSE DateChange(d, heap, candle, now)

\* the bus: publish(event) calls the handlers in the order they are stored
Publish(subs, events) ==
    LET calls(e) == [i \in 1..Len(subs) |-> [handler |-> subs[i], event |-> e]]
    IN IF events = <<>> THEN <<>>
       ELSE IF Len(events) = 1 THEN calls(events[1])
       ELSE calls(events[1]) \o calls(events[2])

StartEvents(events) == SelectSeq(events, LAMBDA e : e.type = "SessionStartEvent")

EventTypes(events) == [i \in 1..Len(events) |-> events[i].type]


\* the record of a session's candles: how many, the first one's open and timestamp,
\* all highs, all lows, the last one's close and timestamp
NoHistory ==
    [count |-> 0, first_open |-> None, first_ts |-> None, highs |-> {}, lows |-> {},
     last_close |-> None, last_ts |-> None]

ExtendHistory(h, candle) ==
    [count |-> h.count + 1,
     first_open |-> IF h.count = 0 THEN candle.open ELSE h.first_open,
     first_ts |-> IF h.count = 0 THEN candle.timestamp ELSE h.first_ts,
     highs |-> h.highs \cup {candle.high},
     lows |-> h.lows \cup {candle.low},
     last_close |-> candle.close,
     last_ts |-> candle.timestamp]

\* one run after its detector handled a candle and its bus delivered the events
RunAfterCandle(run, subs, candle, now) ==
    LET after == on_candle_closed(run.det, run.ctx_heap, candle, now)
    IN [det |-> after.det,
        ctx_heap |-> after.heap,
        published |-> after.published,
        delivered |-> Publish(subs, after.published),
        kept |-> run.kept \o StartEvents(after.published),
        session_log |-> run.session_log \o EventTypes(after.published)]

\* a closed candle reaches the detector of each run; now[r] is what datetime.now()
\* would return to run r while it handles the candle
OnCandleClosed(candle, now) ==
    /\ n_candles < MaxCandles
    /\ candle.timestamp >= cur_session.last_ts
    /\ sbd' = [r \in Runs |-> RunAfterCandle(sbd[r], subscribers[r], candle, now[r])]
    /\ IF n_candles > 0 /\ CandleDate(candle.timestamp) = CandleDate(cur_session.last_ts)
       THEN /\ cur_session' = ExtendHistory(cur_session, candle)
            /\ prev_session' = NoHistory
       ELSE /\ cur_session' = ExtendHistory(NoHistory, candle)
            /\ prev_session' = cur_session
    /\ n_candles' = n_candles + 1
    /\ UNCHANGED <<subscribers, cb_vars, st_vars, dp_vars, ds_vars, eb_vars, rl_vars, pl_vars>>

Permutations2(S) == {q \in [1..Cardinality(S) -> S] : \A a \in S : \E i \in DOMAIN q : q[i] = a}

SdNext == \E candle \in Candles, now \in WallReadings : OnCandleClosed(candle, now)

\* ------------------------------------------------------------------------
\* DummyStrategy
\* ------------------------------------------------------------------------
StrategyId == "DUMMY"
FlipTimeoutSeconds == 60

\* a clock read by _build_intent: first for the intent_id, then for created_at
ClockReads == {c \in [id : WallTimes, created : WallTimes] : c.id <= c.created}

\* the gaps dict of a GapSnapshotEvent, in iteration order: distinct symbols,
\* each with its gap_pct_abs
GapDicts ==
    {<<>>} \cup {<<[symbol |-> s, gap_pct_abs |-> g]>> : s \in Symbols, g \in GapValues}
    \cup {<<[symbol |-> p[1], gap_pct_abs |-> g1], [symbol |-> p[2], gap_pct_abs |-> g2]>> :
             p \in {q \in Symbols \X Symbols : q[1] # q[2]}, g1 \in GapValues, g2 \in GapValues}

\* the attribute of a fill event that carries the intent id
FillShapes == {"intent_id", "origin_intent_id", "intent.intent_id", "none"}

\* the active symbol when it is None
NoSymbol == ""

\* an intent id that is None
NoIntentId == [strategy_id |-> "", symbol |-> NoSymbol, step_index |-> 0, ts |-> 0]

\* _make_intent_id: f"{self._id}:{symbol}:step{step_index}:{ts}", ts = now().isoformat()
make_intent_id(symbol, step_index, now) ==
    [strategy_id |-> StrategyId, symbol |-> symbol, step_index |-> step_index, ts |-> now]

TriggerSpec(side, step_index) ==
    [side |-> side, step_index |-> step_index, timeout_seconds |-> FlipTimeoutSeconds,
     valid_until |-> None, priority |-> 0]

\* created_at = datetime.now(timezone.utc)
CreatedAt(clock) == clock.created

\* _build_intent: both triggers for the step, the id and created_at from the clock
build_intent(symbol, step_index, clock) ==
    [intent_id |-> make_intent_id(symbol, step_index, clock.id),
     strategy_id |-> StrategyId,
     symbol |-> symbol,
     triggers |-> <<TriggerSpec("LONG", step_index), TriggerSpec("SHORT", step_index)>>,
     auto_advance |-> auto_advance,
     created_at |-> CreatedAt(clock),
     correlation_id |-> None,
     session_date |-> None]

\* (mutant) on a tie the last entry with the least gap_pct_abs is chosen
ChosenSymbolLastOnTie(gaps) ==
    LET i == CHOOSE i \in DOMAIN gaps :
                 /\ \A j \in DOMAIN gaps : gaps[i].gap_pct_abs <= gaps[j].gap_pct_abs
                 /\ \A j \in (i + 1)..Len(gaps) : gaps[j].gap_pct_abs > gaps[i].gap_pct_abs
    IN gaps[i].symbol

\* sorted(event.gaps.items(), key=gap_pct_abs)[0][0]: the first entry, in iteration
\* order, with the least gap_pct_abs
ChosenSymbol(gaps) ==
    LET i == CHOOSE i \in DOMAIN gaps :
                 /\ \A j \in DOMAIN gaps : gaps[i].gap_pct_abs <= gaps[j].gap_pct_abs
                 /\ \A j \in 1..(i - 1) : gaps[j].gap_pct_abs > gaps[i].gap_pct_abs
    IN gaps[i].symbol

\* _publish_intent after _build_intent: publish, then record the active intent id
PublishIntent(st, symbol, step_index, clock) ==
    LET intent == build_intent(symbol, step_index, clock)
    IN [st EXCEPT !.active_symbol = symbol,
                  !.step_index = step_index,
                  !.active_intent_id = intent.intent_id,
                  !.published = <<intent>>,
                  !.n_published = st.n_published + 1]

\* _on_gap_snapshot
on_gap_snapshot(st, gaps, clock) ==
    IF ~st.active THEN [st EXCEPT !.published = <<>>]
    ELSE IF gaps = <<>> THEN [st EXCEPT !.published = <<>>]
    ELSE PublishIntent(st, ChosenSymbol(gaps), 1, clock)

\* the intent id _on_order_fill extracts from a fill event
ExtractIntentId(fill) == IF fill.shape = "none" THEN NoIntentId ELSE fill.id

\* (mutant) a matching fill publishes the next intent at the same step
on_order_fill_same_step(st, fill, clock) ==
    IF ~st.active \/ st.active_intent_id = NoIntentId THEN [st EXCEPT !.published = <<>>]
    ELSE IF ExtractIntentId(fill) # st.active_intent_id THEN [st EXCEPT !.published = <<>>]
    ELSE IF auto_advance
    THEN IF st.active_symbol = NoSymbol THEN [st EXCEPT !.published = <<>>]
         ELSE PublishIntent(st, st.active_symbol, st.step_index, clock)
    ELSE [st EXCEPT !.published = <<>>]

\* (mutant) the comparison of the fill's intent id with the active one is inverted
on_order_fill_inverted(st, fill, clock) ==
    IF ~st.active \/ st.active_intent_id = NoIntentId THEN [st EXCEPT !.published = <<>>]
    ELSE IF ExtractIntentId(fill) = st.active_intent_id THEN [st EXCEPT !.published = <<>>]
    ELSE IF auto_advance
    THEN IF st.active_symbol = NoSymbol THEN [st EXCEPT !.published = <<>>]
         ELSE PublishIntent(st, st.active_symbol, st.step_index + 1, clock)
    ELSE [st EXCEPT !.published = <<>>]

\* (mutant) a matching fill advances whatever auto_advance says
on_order_fill_always_advances(st, fill, clock) ==
    IF ~st.active \/ st.active_intent_id = NoIntentId THEN [st EXCEPT !.published = <<>>]
    ELSE IF ExtractIntentId(fill) # st.active_intent_id THEN [st EXCEPT !.published = <<>>]
    ELSE IF st.active_symbol = NoSymbol THEN [st EXCEPT !.published = <<>>]
    ELSE PublishIntent(st, st.active_symbol, st.step_index + 1, clock)

\* (mutant) the fill's intent id is not compared with the active one
on_order_fill_unmatched(st, fill, clock) ==
    IF ~st.active \/ st.active_intent_id = NoIntentId THEN [st EXCEPT !.published = <<>>]
    ELSE IF auto_advance
    THEN IF st.active_symbol = NoSymbol THEN [st EXCEPT !.published = <<>>]
         ELSE PublishIntent(st, st.active_symbol, st.step_index + 1, clock)
    ELSE [st EXCEPT !.published = <<>>]

\* _on_order_fill
on_order_fill(st, fill, clock) ==
    IF ~st.active \/ st.active_intent_id = NoIntentId THEN [st EXCEPT !.published = <<>>]
    ELSE IF ExtractIntentId(fill) # st.active_intent_id THEN [st EXCEPT !.published = <<>>]
    ELSE IF auto_advance
    THEN IF st.active_symbol = NoSymbol THEN [st EXCEPT !.published = <<>>]
         ELSE PublishIntent(st, st.active_symbol, st.step_index + 1, clock)
    ELSE [st EXCEPT !.published = <<>>]

\* (mutant) the session end clears the selection but leaves the strategy active
on_session_end_stays_active(st) ==
    [st EXCEPT !.active_symbol = NoSymbol,
               !.active_intent_id = NoIntentId,
               !.published = <<>>]

\* _on_session_end
on_session_end(st) ==
    [st EXCEPT !.active = FALSE,
               !.active_symbol = NoSymbol,
               !.active_intent_id = NoIntentId,
               !.published = <<>>]

\* the intent ids of the IntentEvents the runs published for the last input
PublishedIds(st) ==
    UNION {{st[r].published[i].intent_id : i \in DOMAIN st[r].published} : r \in Runs}

\* an event was delivered to the strategy of each run: its intent ids are known
NoFill == [shape |-> "none", id |-> NoIntentId]

Delivered(kind, gaps, fill) ==
    /\ known_ids' = known_ids \cup PublishedIds(strat')
    /\ n_inputs' = n_inputs + 1
    /\ last_input' = [kind |-> kind, gaps |-> gaps, fill |-> fill]
    /\ UNCHANGED <<auto_advance, cb_vars, sd_vars, dp_vars, ds_vars, eb_vars, rl_vars, pl_vars>>

\* the same GapSnapshotEvent reaches the strategy of each run
OnGapSnapshot(gaps, clocks) ==
    /\ n_inputs < MaxInputs
    /\ strat' = [r \in Runs |-> on_gap_snapshot(strat[r], gaps, clocks[r])]
    /\ Delivered("GapSnapshotEvent", gaps, NoFill)

\* the same fill event reaches the strategy of each run
OnOrderFill(fill, clocks) ==
    /\ n_inputs < MaxInputs
    /\ strat' = [r \in Runs |-> on_order_fill(strat[r], fill, clocks[r])]
    /\ Delivered("OrderFillEvent", <<>>, fill)

\* the same SessionEndEvent reaches the strategy of each run
OnSessionEnd ==
    /\ n_inputs < MaxInputs
    /\ strat' = [r \in Runs |-> on_session_end(strat[r])]
    /\ Delivered("SessionEndEvent", <<>>, NoFill)

\* the fill events that can arrive: an event without an intent id attribute, or
\* one that carries, in one of the shapes, no id or an id published so far
Fills ==
    {NoFill} \cup [shape : FillShapes \ {"none"}, id : known_ids \cup {NoIntentId}]

StNext ==
    \/ \E clocks \in [Runs -> ClockReads] :
           \/ \E gaps \in GapDicts : OnGapSnapshot(gaps, clocks)
           \/ \E fill \in Fills : OnOrderFill(fill, clocks)
    \/ OnSessionEnd

\* ------------------------------------------------------------------------
\* DerivedDataProcessor and DerivedDataStore
\* ------------------------------------------------------------------------
\* Floats are exact rationals num/den in lowest terms, den > 0.
Abs(x) == IF x < 0 THEN -x ELSE x

RECURSIVE GCD(_, _)
GCD(a, b) == IF b = 0 THEN a ELSE GCD(b, a % b)

Rat(n, d) ==
    LET g == GCD(Abs(n), d)
    IN [num |-> n \div g, den |-> d \div g]

RatSub(a, b) == Rat(a.num * b.den - b.num * a.den, a.den * b.den)
RatMul(a, b) == Rat(a.num * b.num, a.den * b.den)
\* a / b for b > 0
RatDiv(a, b) == Rat(a.num * b.den, a.den * b.num)
RatAbs(a) == [num |-> Abs(a.num), den |-> a.den]
RatLess(a, b) == a.num * b.den < b.num * a.den

\* DERIVED_CFG["threshold_pct"] = 0.25, in hundredths of a percent
ThresholdHundredths == 25
threshold_pct == Rat(ThresholdHundredths, 100)

RatAdd(a, b) == Rat(a.num * b.den + b.num * a.den, a.den * b.den)

\* Python's round() of a rational a >= 0: to the nearest integer, a half to the
\* even one
Round(a) ==
    LET q == a.num \div a.den
        twice_rest == 2 * (a.num % a.den)
    IN IF twice_rest < a.den THEN q
       ELSE IF twice_rest > a.den THEN q + 1
       ELSE IF q % 2 = 0 THEN q ELSE q + 1

\* DERIVED_CFG["target_step_pct"] = 0.25, in hundredths of a percent
TargetStepHundredths == 25
target_step_pct == Rat(TargetStepHundredths, 100)

\* DERIVED_CFG["target_max_pct"]: the ladder is modelled up to MaxTargetSteps steps
\* of target_step_pct (the repository's 20.0 is 80 steps)
MaxTargetSteps == 2
target_max_pct == RatMul(Rat(MaxTargetSteps, 1), target_step_pct)

\* _compute_target_ranges with the negative levels x / (1 + k)
compute_target_ranges_divided(x) ==
    LET step == RatDiv(target_step_pct, Rat(100, 1))
        num_steps == Round(RatDiv(target_max_pct, target_step_pct)) + 1
        ks == [i \in 1..num_steps |-> RatMul(Rat(i - 1, 1), step)]
    IN [pos |-> [i \in 1..num_steps |-> RatMul(Rat(x, 1), RatAdd(Rat(1, 1), ks[i]))],
        neg |-> [i \in 1..num_steps |-> RatDiv(Rat(x, 1), RatAdd(Rat(1, 1), ks[i]))]]

\* _compute_target_ranges: the price levels x * (1 + k) and x * (1 - k) for
\* k = 0, step, 2 * step, ...; entry i + 1 of a sequence is index i of the list
compute_target_ranges(x) ==
    LET step == RatDiv(target_step_pct, Rat(100, 1))
        num_steps == Round(RatDiv(target_max_pct, target_step_pct)) + 1
        ks == [i \in 1..num_steps |-> RatMul(Rat(i - 1, 1), step)]
    IN [pos |-> [i \in 1..num_steps |-> RatMul(Rat(x, 1), RatAdd(Rat(1, 1), ks[i]))],
        neg |-> [i \in 1..num_steps |-> RatMul(Rat(x, 1), RatSub(Rat(1, 1), ks[i]))]]

\* the prev_day_ohlc argument: a dict from some symbols to their rows
OhlcTables ==
    {[k \in {} |-> RowZero],
     [k \in {"A", "B"} |-> IF k = "A" THEN RowZero ELSE RowWide],
     [k \in {"A", "B", "C"} |-> IF k = "A" THEN RowAtThreshold
                                ELSE IF k = "B" THEN RowZero200 ELSE RowNarrow],
     [k \in {"A", "B", "C"} |-> IF k = "B" THEN RowZero200 ELSE RowZero]}

\* _compute_cpr
compute_cpr(h, l, c) ==
    LET P == Rat(h + l + c, 3)
        BC == Rat(h + l, 2)
        TC == RatSub(RatMul(Rat(2, 1), P), BC)
    IN [P |-> P, BC |-> BC, TC |-> TC,
        width_pct |-> RatMul(RatDiv(RatAbs(RatSub(TC, BC)), P), Rat(100, 1))]

\* DERIVED_CFG["flip_steps_pct"] = [0.0, 0.02, 0.04, 0.05, 0.06, 0.08, 0.10], in
\* hundredths of a percent
flip_steps_pct == <<0, 2, 4, 5, 6, 8, 10>>

\* _compute_flip_ranges: the price levels x * (1 + k) and x * (1 - k) for the
\* k = flip_steps_pct / 100
compute_flip_ranges(x) ==
    LET ks == [i \in DOMAIN flip_steps_pct |->
                  RatDiv(Rat(flip_steps_pct[i], 100), Rat(100, 1))]
    IN [pos |-> [i \in DOMAIN ks |-> RatMul(Rat(x, 1), RatAdd(Rat(1, 1), ks[i]))],
        neg |-> [i \in DOMAIN ks |-> RatMul(Rat(x, 1), RatSub(Rat(1, 1), ks[i]))]]

DerivedSymbolData(symbol, ohlc) ==
    LET cpr == compute_cpr(ohlc.high, ohlc.low, ohlc.close)
        target == compute_target_ranges(ohlc.close)
        flip == compute_flip_ranges(ohlc.close)
    IN [symbol |-> symbol,
        prev_high |-> ohlc.high,
        prev_low |-> ohlc.low,
        prev_close |-> ohlc.close,
        P |-> cpr.P,
        BC |-> cpr.BC,
        TC |-> cpr.TC,
        cpr_width_pct |-> cpr.width_pct,
        target_range_pos |-> target.pos,
        target_range_neg |-> target.neg,
        flip_range_pos |-> flip.pos,
        flip_range_neg |-> flip.neg]

\* (mutant) the omitted symbols stay in the universe
universe_refresh_all(config) == config.symbol_universe

\* universe_refresh: the configured list without the omitted symbols, in its order
universe_refresh(config) ==
    SelectSeq(config.symbol_universe, LAMBDA s : s \notin config.manually_omitted_symbols)

\* list(a_set): the elements in the process's iteration order
ListOfSet(S, order) == SelectSeq(order, LAMBDA s : s \in S)

\* the loop of run_pre_market: the symbols without a row in the table
MissingSymbols(universe, table) ==
    {universe[i] : i \in {j \in DOMAIN universe : universe[j] \notin DOMAIN table}}

\* the loop of run_pre_market: a record per symbol with a row, appended to what
\* _filtered_records holds, in the universe's order
\* self._store.persist_symbol_data(record) raises: for the record of symbol A
PersistSymbolDataFails(symbol, fails) ==
    symbol = "A" /\ "persist_symbol_data(A)" \in fails

\* (mutant) a record whose persist_symbol_data call failed is not kept
AppendRecordIfPersisted(records, record, fails) ==
    IF PersistSymbolDataFails(record.symbol, fails) THEN records ELSE Append(records, record)

\* self._filtered_records.append(record), after the try/except around
\* persist_symbol_data: whether or not the call failed
AppendRecord(records, record, fails) == Append(records, record)

\* the rows of the previous-day tables
OhlcRows == {RowZero, RowZero200, RowNarrow, RowAtThreshold, RowWide}

\* the record the loop of run_pre_market builds for each symbol and row
DerivedRecords ==
    [symbol \in UniverseSymbols |->
        [ohlc \in OhlcRows |-> DerivedSymbolData(symbol, ohlc)]]

RECURSIVE ComputedRecords(_, _, _, _)
ComputedRecords(records, universe, table, fails) ==
    IF universe = <<>> THEN records
    ELSE IF Head(universe) \notin DOMAIN table
    THEN ComputedRecords(records, Tail(universe), table, fails)
    ELSE ComputedRecords(AppendRecord(records,
                                      DerivedRecords[Head(universe)][table[Head(universe)]],
                                      fails),
                         Tail(universe), table, fails)

\* (mutant) self._filtered_records is not cleared: the records of the last run stay
ClearedRecordsKept(records) == records

\* self._filtered_records.clear()
ClearedRecords(records) == <<>>

\* (mutant) an unstable sort: r goes before the records of the same width
InsertByWidthBeforeEqual(sorted, r) ==
    LET k == Cardinality({i \in DOMAIN sorted :
                             RatLess(sorted[i].cpr_width_pct, r.cpr_width_pct)})
    IN SubSeq(sorted, 1, k) \o <<r>> \o SubSeq(sorted, k + 1, Len(sorted))

\* one step of a stable sort: r goes behind every record that is not wider
InsertByWidth(sorted, r) ==
    LET k == Cardinality({i \in DOMAIN sorted :
                             ~RatLess(r.cpr_width_pct, sorted[i].cpr_width_pct)})
    IN SubSeq(sorted, 1, k) \o <<r>> \o SubSeq(sorted, k + 1, Len(sorted))

\* self._filtered_records.sort(key=cpr_width_pct): ascending, stable
RECURSIVE SortByWidth(_)
SortByWidth(records) ==
    IF records = <<>> THEN <<>>
    ELSE InsertByWidth(SortByWidth(SubSeq(records, 1, Len(records) - 1)),
                       records[Len(records)])

\* (mutant) the threshold test also passes a record that is exactly at the threshold
UnderThresholdInclusive(r) == ~RatLess(threshold_pct, r.cpr_width_pct)

\* r.cpr_width_pct < threshold
UnderThreshold(r) == RatLess(r.cpr_width_pct, threshold_pct)

\* candidates = [r for r in self._filtered_records if r.cpr_width_pct < threshold]
Candidates(records) == SelectSeq(records, UnderThreshold)

\* (mutant) the slice keeps one record more than top_n
TopSliceOneMore(candidates, top_n) == SubSeq(candidates, 1, Min(top_n + 1, Len(candidates)))

\* candidates[:top_n]
TopSlice(candidates, top_n) == SubSeq(candidates, 1, Min(top_n, Len(candidates)))

SymbolsOf(records) == [i \in DOMAIN records |-> records[i].symbol]

\* persist_symbol_data after the records of earlier runs were dropped
PersistSymbolDataOnlyThisRun(st, records, fails) ==
    LET stored == {i \in DOMAIN records : ~PersistSymbolDataFails(records[i].symbol, fails)}
    IN [st EXCEPT !.symbols =
           [s \in {records[i].symbol : i \in stored} |->
               LET last == CHOOSE i \in stored :
                               /\ records[i].symbol = s
                               /\ \A k \in stored : records[k].symbol = s => k <= i
               IN records[last]]]

\* persist_symbol_data keeping the record a symbol already has
PersistSymbolDataKeepFirst(st, records, fails) ==
    LET stored == {i \in DOMAIN records : ~PersistSymbolDataFails(records[i].symbol, fails)}
    IN [st EXCEPT !.symbols =
           [s \in DOMAIN st.symbols \cup {records[i].symbol : i \in stored} |->
               IF s \in DOMAIN st.symbols THEN st.symbols[s]
               ELSE LET last == CHOOSE i \in stored :
                                    /\ records[i].symbol = s
                                    /\ \A k \in stored : records[k].symbol = s => k <= i
                    IN records[last]]]

\* self._store.persist_symbol_data(record) for each computed record, inside try/except
PersistSymbolData(st, records, fails) ==
    LET stored == {i \in DOMAIN records : ~PersistSymbolDataFails(records[i].symbol, fails)}
    IN [st EXCEPT !.symbols =
           [s \in DOMAIN st.symbols \cup {records[i].symbol : i \in stored} |->
               IF \E i \in stored : records[i].symbol = s
               THEN LET last == CHOOSE i \in stored :
                                    /\ records[i].symbol = s
                                    /\ \A j \in stored : records[j].symbol = s => j <= i
                    IN records[last]
               ELSE st.symbols[s]]]

DerivedUniverseSnapshot(now, universe, filtered, tradable, missing) ==
    [timestamp |-> now,
     effective_universe |-> universe,
     filtered_symbols |-> SymbolsOf(filtered),
     tradable_symbols |-> SymbolsOf(tradable),
     symbols_missing_prev_day_ohlc |-> missing]

\* the snapshot lists of the store are append-only and never read by the pipeline:
\* a list is kept as its length and its last element (<<>> or <<last>>)
StoreAppend(list, x) == [len |-> list.len + 1, last |-> <<x>>]

\* run_pre_market: the processor, the store and what was published afterwards;
\* raised: an exception left the call
run_pre_market(d, st, config, order, prev_day_ohlc, fails, now) ==
    LET universe == universe_refresh(config)
        table == prev_day_ohlc
        missing == MissingSymbols(universe, table)
        computed == ComputedRecords(ClearedRecords(d.filtered_records), universe, table, fails)
        st1 == PersistSymbolData(st, computed, fails)
        filtered == SortByWidth(computed)
        tradable == TopSlice(Candidates(filtered), config.top_n)
        d1 == [effective_universe |-> universe,
               symbols_missing_prev_day_ohlc |-> missing,
               filtered_records |-> filtered,
               tradable_records |-> tradable]
        snapshot == DerivedUniverseSnapshot(now, universe, filtered, tradable,
                                            ListOfSet(missing, order))
    IN IF "persist_universe_snapshot" \in fails
       THEN [ddp |-> d1, store |-> st1, published |-> <<>>, raised |-> TRUE]
       ELSE [ddp |-> d1,
             store |-> [st1 EXCEPT !.universe_snapshots = StoreAppend(@, snapshot)],
             published |-> <<[type |-> "DerivedUniverseSnapshot", event |-> snapshot]>>,
             raised |-> FALSE]

\* gap_pct = ((today_open - prev_close) / prev_close) * 100.0
GapPct(today_open, prev_close) ==
    RatMul(RatDiv(Rat(today_open - prev_close, 1), Rat(prev_close, 1)), Rat(100, 1))

\* gaps[record.symbol] = {...}
GapEntry(record, today_open) ==
    [symbol |-> record.symbol,
     prev_close |-> record.prev_close,
     today_open |-> today_open,
     gap_pct |-> GapPct(today_open, record.prev_close),
     gap_pct_abs |-> RatAbs(GapPct(today_open, record.prev_close))]

\* the gaps dict, in insertion order: an entry per tradable record
Gaps(records, today_open) == [i \in DOMAIN records |-> GapEntry(records[i], today_open)]

\* (mutant) an empty tradable set gives an empty snapshot instead of none
NoTradablesEmitsEmpty(records) == FALSE

\* if not self._tradable_records: return
NoTradables(records) == records = <<>>

\* _on_session_start
on_session_start(d, st, event, fails) ==
    LET gaps == Gaps(d.tradable_records, event.session_context.today_open)
        gap_event == [timestamp |-> event.timestamp, gaps |-> gaps]
    IN IF NoTradables(d.tradable_records)
       THEN [ddp |-> d, store |-> st, published |-> <<>>, raised |-> FALSE]
       ELSE IF "persist_gap_snapshot" \in fails
       THEN [ddp |-> d, store |-> st, published |-> <<>>, raised |-> TRUE]
       ELSE [ddp |-> d,
             store |-> [st EXCEPT !.gap_snapshots = StoreAppend(@, gap_event)],
             published |-> <<[type |-> "GapSnapshotEvent", event |-> gap_event]>>,
             raised |-> FALSE]

\* the SessionStartEvents the processor can receive
SessionStarts ==
    [timestamp : SessionStartTimes, session_context : [today_open : TodayOpens]]

NoTable == [s \in {} |-> 0]

RunPreMarket(prev_day_ohlc, fails, now) ==
    /\ n_ops < MaxOps
    /\ \E r \in {run_pre_market(ddp, store, cfg, hash_order, prev_day_ohlc, fails, now)} :
       /\ ddp' = r.ddp
       /\ store' = r.store
       /\ ddp_published' = r.published
       /\ ddp_last' = [op |-> "run_pre_market", today_open |-> 0,
                       timestamp |-> 0, fails |-> fails, raised |-> r.raised,
                       persisted |-> r.store.universe_snapshots.len
                                       - store.universe_snapshots.len]
       /\ pm_runs' = IF r.raised THEN pm_runs
                     ELSE (IF pm_runs = <<>> THEN <<>> ELSE <<pm_runs[Len(pm_runs)]>>)
                          \o <<[table |-> prev_day_ohlc,
                                filtered_symbols |-> r.published[1].event.filtered_symbols,
                                tradable_symbols |-> r.published[1].event.tradable_symbols,
                                symbols_missing_prev_day_ohlc |->
                                    r.published[1].event.symbols_missing_prev_day_ohlc]>>
       /\ n_ops' = n_ops + 1
       /\ UNCHANGED <<cfg, hash_order, cb_vars, sd_vars, st_vars, ds_vars, eb_vars, rl_vars, pl_vars>>

OnSessionStart(event, fails) ==
    /\ n_ops < MaxOps
    /\ \E r \in {on_session_start(ddp, store, event, fails)} :
       /\ ddp' = r.ddp
       /\ store' = r.store
       /\ ddp_published' = r.published
       /\ ddp_last' = [op |-> "on_session_start",
                       today_open |-> event.session_context.today_open,
                       timestamp |-> event.timestamp, fails |-> fails, raised |-> r.raised,
                       persisted |-> r.store.gap_snapshots.len - store.gap_snapshots.len]
       /\ n_ops' = n_ops + 1
       /\ UNCHANGED <<cfg, hash_order, pm_runs, cb_vars, sd_vars, st_vars, ds_vars, eb_vars, rl_vars, pl_vars>>

\* between two runs a symbol that has a stored record is taken out of
\* config.symbol_universe, the list being changed in place
\* (derived_config.symbol_universe[:] = ...)
RemoveFromUniverse(symbol) ==
    /\ n_ops < MaxOps
    /\ ddp_last.op = "run_pre_market"
    /\ symbol \in DOMAIN store.symbols
    /\ \E i \in DOMAIN cfg.symbol_universe : cfg.symbol_universe[i] = symbol
    /\ cfg' = [cfg EXCEPT !.symbol_universe = SelectSeq(@, LAMBDA s : s # symbol)]
    /\ ddp_published' = <<>>
    /\ ddp_last' = [op |-> "symbol_universe", today_open |-> 0, timestamp |-> 0,
                    fails |-> {}, raised |-> FALSE, persisted |-> 0]
    /\ pm_runs' = <<>>
    /\ n_ops' = n_ops + 1
    /\ UNCHANGED <<hash_order, ddp, store, cb_vars, sd_vars, st_vars,
                   ds_vars, eb_vars, rl_vars, pl_vars>>

\* the persistence calls of the store that fail during an operation
PreMarketFailures == {{}, {"persist_symbol_data(A)"}, {"persist_universe_snapshot"}}
SessionStartFailures == {{}, {"persist_gap_snapshot"}}

DpNext ==
    \/ \E prev_day_ohlc \in OhlcTables, fails \in PreMarketFailures, now \in WallTimes :
           RunPreMarket(prev_day_ohlc, fails, now)
    \/ \E event \in SessionStarts, fails \in SessionStartFailures :
           OnSessionStart(event, fails)
    \/ RemoveFromUniverse("A")

\* ------------------------------------------------------------------------
\* InMemoryDerivedDataStore: the accessors
\* ------------------------------------------------------------------------
\* Python's None where a price is expected
NoPrice == [num |-> 0, den |-> 0]

Sides == {"pos", "neg"}

\* get_target_by_step: the ladder entry of the side at step_index, None for a
\* symbol without a record or an index outside the ladder
get_target_by_step(st, symbol, step_index, side) ==
    IF symbol \notin DOMAIN st.symbols THEN NoPrice
    ELSE LET record == st.symbols[symbol]
         IN IF side = "pos"
            THEN IF 0 <= step_index /\ step_index < Len(record.target_range_pos)
                 THEN record.target_range_pos[step_index + 1]
                 ELSE NoPrice
            ELSE IF 0 <= step_index /\ step_index < Len(record.target_range_neg)
                 THEN record.target_range_neg[step_index + 1]
                 ELSE NoPrice

\* get_flip_for_step: the same for the flip ladders
get_flip_for_step(st, symbol, step_index, side) ==
    IF symbol \notin DOMAIN st.symbols THEN NoPrice
    ELSE LET record == st.symbols[symbol]
         IN IF side = "pos"
            THEN IF 0 <= step_index /\ step_index < Len(record.flip_range_pos)
                 THEN record.flip_range_pos[step_index + 1]
                 ELSE NoPrice
            ELSE IF 0 <= step_index /\ step_index < Len(record.flip_range_neg)
                 THEN record.flip_range_neg[step_index + 1]
                 ELSE NoPrice

\* get_stop_for_step with the target's percentage applied on the target's side
get_stop_for_step_same_side(st, symbol, step_index, side) ==
    IF symbol \notin DOMAIN st.symbols THEN NoPrice
    ELSE LET prev_close == Rat(st.symbols[symbol].prev_close, 1)
             target_price == get_target_by_step(st, symbol, step_index, side)
         IN IF target_price = NoPrice THEN NoPrice
            ELSE LET target_pct == RatSub(RatDiv(target_price, prev_close), Rat(1, 1))
                 IN RatMul(prev_close, RatAdd(Rat(1, 1), target_pct))

\* get_stop_for_step: prev_close * (1 - target_pct), where target_pct is the
\* target's distance from prev_close as a fraction of prev_close
get_stop_for_step(st, symbol, step_index, side) ==
    IF symbol \notin DOMAIN st.symbols THEN NoPrice
    ELSE LET prev_close == Rat(st.symbols[symbol].prev_close, 1)
             target_price == get_target_by_step(st, symbol, step_index, side)
         IN IF target_price = NoPrice THEN NoPrice
            ELSE LET target_pct == RatSub(RatDiv(target_price, prev_close), Rat(1, 1))
                 IN RatMul(prev_close, RatSub(Rat(1, 1), target_pct))

\* the records handed to persist_symbol_data and the arguments of the accessors
StoreRecords ==
    {DerivedRecords[symbol][ohlc] :
        symbol \in UniverseSymbols, ohlc \in {RowZero, RowNarrow, RowWide}}

StepIndexes == (0 - 1)..(MaxTargetSteps + 1)

\* store.persist_symbol_data(record)
PersistSymbolDataCall(record) ==
    /\ store' = PersistSymbolData(store, <<record>>, {})
    /\ store_last' = [op |-> "persist_symbol_data", symbol |-> record.symbol,
                      step_index |-> 0, side |-> "pos", result |-> NoPrice]
    /\ UNCHANGED <<cfg, hash_order, ddp, ddp_published, ddp_last, pm_runs, n_ops,
                   cb_vars, sd_vars, st_vars, eb_vars, rl_vars, pl_vars>>

\* store.get_target_by_step(symbol, step_index, side)
GetTargetByStep(symbol, step_index, side) ==
    /\ store_last' = [op |-> "get_target_by_step", symbol |-> symbol,
                      step_index |-> step_index, side |-> side,
                      result |-> get_target_by_step(store, symbol, step_index, side)]
    /\ UNCHANGED <<dp_vars, cb_vars, sd_vars, st_vars, eb_vars, rl_vars, pl_vars>>

\* store.get_stop_for_step(symbol, step_index, side)
GetStopForStep(symbol, step_index, side) ==
    /\ store_last' = [op |-> "get_stop_for_step", symbol |-> symbol,
                      step_index |-> step_index, side |-> side,
                      result |-> get_stop_for_step(store, symbol, step_index, side)]
    /\ UNCHANGED <<dp_vars, cb_vars, sd_vars, st_vars, eb_vars, rl_vars, pl_vars>>

DsNext ==
    \/ \E record \in StoreRecords : PersistSymbolDataCall(record)
    \/ \E symbol \in UniverseSymbols, step_index \in StepIndexes, side \in Sides :
           \/ GetTargetByStep(symbol, step_index, side)
           \/ GetStopForStep(symbol, step_index, side)

\* ------------------------------------------------------------------------
\* EventBus
\* ------------------------------------------------------------------------
BusEventTypes == {"TestEvent", "TickEvent"}
Payloads == {42, 7}

\* the handlers: "handler" and "other" keep the payload they are called with,
\* "forward" does the same and publishes it again as a TickEvent before it
\* returns (as CandleBuilder._on_tick publishes during a TickEvent)
BusHandlers == {"handler", "other", "forward"}

\* the most subscriptions a bus gets
MaxSubscriptions == 3

\* self._subscribers.get(event_type, [])
HandlersOf(subs, event_type) ==
    IF event_type \in DOMAIN subs THEN subs[event_type] ELSE <<>>

\* subscribe: self._subscribers[event_type].append(handler)
subscribe(subs, event_type, handler) ==
    [k \in DOMAIN subs \cup {event_type} |->
        IF k = event_type THEN Append(HandlersOf(subs, k), handler) ELSE subs[k]]

\* the loop of publish visiting the handlers last to first
RECURSIVE publish(_, _, _, _)
RECURSIVE CallHandlers(_, _, _, _, _, _)
RECURSIVE CallHandlersBackwards(_, _, _, _, _, _)
CallHandlersBackwards(subs, handlers, i, event_type, payload, depth) ==
    IF i > Len(handlers) THEN <<>>
    ELSE LET h == handlers[Len(handlers) + 1 - i]
         IN <<[handler |-> h, event_type |-> event_type,
               payload |-> payload, depth |-> depth]>>
            \o (IF h = "forward"
                THEN publish(subs, "TickEvent", payload, depth + 1)
                ELSE <<>>)
            \o CallHandlersBackwards(subs, handlers, i + 1, event_type, payload, depth)

\* for handler in handlers: handler(payload), from the i-th handler on: the
\* calls made, in order, those of the publishes inside the handlers included
CallHandlers(subs, handlers, i, event_type, payload, depth) ==
    IF i > Len(handlers) THEN <<>>
    ELSE <<[handler |-> handlers[i], event_type |-> event_type,
            payload |-> payload, depth |-> depth]>>
         \o (IF handlers[i] = "forward"
             THEN publish(subs, "TickEvent", payload, depth + 1)
             ELSE <<>>)
         \o CallHandlers(subs, handlers, i + 1, event_type, payload, depth)

\* publish(event_type, payload): the calls made before it returns; depth is
\* the number of publish calls it is inside of
publish(subs, event_type, payload, depth) ==
    CallHandlers(subs, HandlersOf(subs, event_type), 1, event_type, payload, depth)

\* the subscriptions so far
RECURSIVE NumSubscriptions(_, _)
NumSubscriptions(subs, keys) ==
    IF keys = {} THEN 0
    ELSE LET k == CHOOSE k \in keys : TRUE
         IN Len(HandlersOf(subs, k)) + NumSubscriptions(subs, keys \ {k})

\* bus.subscribe(event_type, handler); a "forward" handler under TickEvent would
\* call itself without end
BusSubscribe(event_type, handler) ==
    /\ NumSubscriptions(eb_subscribers, BusEventTypes) < MaxSubscriptions
    /\ ~(handler = "forward" /\ event_type = "TickEvent")
    /\ eb_subscribers' = subscribe(eb_subscribers, event_type, handler)
    /\ eb_calls' = <<>>
    /\ eb_last' = [op |-> "subscribe", event_type |-> event_type,
                   handler |-> handler, payload |-> 0]
    /\ UNCHANGED <<cb_vars, sd_vars, st_vars, dp_vars, ds_vars, rl_vars, pl_vars>>

\* bus.publish(event_type, payload)
BusPublish(event_type, payload) ==
    /\ eb_calls' = publish(eb_subscribers, event_type, payload, 0)
    /\ eb_last' = [op |-> "publish", event_type |-> event_type,
                   handler |-> "", payload |-> payload]
    /\ UNCHANGED <<eb_subscribers, cb_vars, sd_vars, st_vars, dp_vars, ds_vars, rl_vars, pl_vars>>

EbNext ==
    \/ \E event_type \in BusEventTypes, handler \in BusHandlers : BusSubscribe(event_type, handler)
    \/ \E event_type \in BusEventTypes, payload \in Payloads : BusPublish(event_type, payload)

\* ------------------------------------------------------------------------
\* ReplayLoader
\* ------------------------------------------------------------------------
\* the clock's start_time and the recorded ticks
ReplayStart == 900
ReplayTicks ==
    {[symbol |-> "TEST", price |-> 100, volume |-> 10, timestamp |-> 915],
     [symbol |-> "TEST", price |-> 101, volume |-> 20, timestamp |-> 916],
     [symbol |-> "TEST", price |-> 99, volume |-> 5, timestamp |-> 900]}

\* the most ticks in an archive
MaxArchive == 3

RECURSIVE SeqsUpTo(_, _)
SeqsUpTo(S, n) ==
    IF n = 0 THEN {<<>>}
    ELSE LET shorter == SeqsUpTo(S, n - 1)
         IN shorter \cup {Append(q, x) : q \in shorter, x \in S}

Archives == SeqsUpTo(ReplayTicks, MaxArchive)

\* what the subscribers of a publish at clock reading now were called with and
\* what clock.now() gave them
Seen(calls, now) ==
    [i \in 1..Len(calls) |-> [handler |-> calls[i].handler, tick |-> calls[i].payload,
                              now |-> now]]

\* replay_next publishing the tick before it sets the clock
replay_next_publish_first(ticks, clock, subs) ==
    IF ticks = <<>>
    THEN [ticks |-> ticks, clock |-> clock, delivered |-> <<>>, published |-> <<>>,
          result |-> FALSE]
    ELSE LET tick == Head(ticks)
         IN [ticks |-> Tail(ticks),
             clock |-> tick.timestamp,
             delivered |-> Seen(publish(subs, "TickEvent", tick, 0), clock),
             published |-> <<tick>>,
             result |-> TRUE]

\* replay_next: next(self._ticks); at StopIteration return False; else set the
\* clock to the tick's timestamp, publish the tick as a TickEvent, return True
replay_next(ticks, clock, subs) ==
    IF ticks = <<>>
    THEN [ticks |-> ticks, clock |-> clock, delivered |-> <<>>, published |-> <<>>,
          result |-> FALSE]
    ELSE LET tick == Head(ticks)
             current_time == tick.timestamp
         IN [ticks |-> Tail(ticks),
             clock |-> current_time,
             delivered |-> Seen(publish(subs, "TickEvent", tick, 0), current_time),
             published |-> <<tick>>,
             result |-> TRUE]

\* replay.replay_next()
ReplayNext ==
    /\ \E r \in {replay_next(rl_ticks, rl_clock, eb_subscribers)} :
          /\ rl_ticks' = r.ticks
          /\ rl_clock' = r.clock
          /\ rl_last' = [op |-> "replay_next", result |-> r.result,
                         delivered |-> r.delivered]
          /\ rl_published' = rl_published \o r.published
    /\ UNCHANGED <<rl_archive, cb_vars, sd_vars, st_vars, dp_vars, ds_vars, eb_vars, pl_vars>>

\* the loader's run: tick subscribers join the bus, the ticks are replayed
RlNext ==
    \/ \E handler \in BusHandlers : BusSubscribe("TickEvent", handler)
    \/ ReplayNext

\* ------------------------------------------------------------------------
\* Specifications: one per component, the other components at rest
\* ------------------------------------------------------------------------
\* The detector, the processor and the strategy wired to one bus
\* ------------------------------------------------------------------------
MaxPipelineSteps == 4

\* the subscriptions in the order the components are constructed: the key of
\* each and the handler; the subscriber of IntentEvent is the component that
\* picks the strategy's intents up
PipelineSubscriptions ==
    <<[key |-> "SessionStartEvent", handler |-> "_on_session_start"],
      [key |-> "GapSnapshotEvent", handler |-> "_on_gap_snapshot"],
      [key |-> "OrderFillEvent", handler |-> "_on_order_fill"],
      [key |-> "SessionEndEvent", handler |-> "_on_session_end"],
      [key |-> "IntentEvent", handler |-> "risk_manager"]>>

\* the handlers publish(event) calls: those subscribed by the event's class, in
\* subscription order
MatchingHandlers(event) ==
    LET matching == SelectSeq(PipelineSubscriptions, LAMBDA sub : sub.key = event.type)
    IN [i \in DOMAIN matching |-> matching[i].handler]

\* the intent id an event carries, if it is an IntentEvent or a fill
EventIntentId(event) ==
    IF event.type = "IntentEvent" THEN event.event.intent_id
    ELSE IF event.type = "OrderFillEvent" THEN ExtractIntentId(event.event)
    ELSE NoIntentId

\* an entry of the log: publish(event) is entered or returns at a nesting depth,
\* while the strategy's fields are as recorded
LogEntry(op, event, depth, st) ==
    [op |-> op, type |-> event.type, depth |-> depth, intent_id |-> EventIntentId(event),
     active |-> st.active, active_intent_id |-> st.active_intent_id,
     step_index |-> st.step_index]

\* the product of the denominators of the gaps
RECURSIVE CommonDenominator(_)
CommonDenominator(gaps) ==
    IF gaps = <<>> THEN 1
    ELSE Head(gaps).gap_pct_abs.den * CommonDenominator(Tail(gaps))

\* the gaps dict as the strategy compares it: every gap_pct_abs, a fraction in
\* the processor, as the whole number of units of 1/CommonDenominator it is
GapsOfEvent(gaps) ==
    [i \in DOMAIN gaps |->
        [symbol |-> gaps[i].symbol,
         gap_pct_abs |-> gaps[i].gap_pct_abs.num
                           * (CommonDenominator(gaps) \div gaps[i].gap_pct_abs.den)]]

RECURSIVE pl_publish(_, _, _, _)

\* _publish_intent: self._bus.publish(intent), and when that call has returned
\* self._active_intent_id = intent.intent_id
publish_intent(p, intent, env, depth) ==
    LET r == pl_publish(p, [type |-> "IntentEvent", event |-> intent], env, depth + 1)
    IN [p |-> [r.p EXCEPT !.strat.active_intent_id = intent.intent_id,
                          !.strat.n_published = @ + 1],
        log |-> r.log]

\* _on_gap_snapshot called by the bus
wired_on_gap_snapshot(p, event, env, depth) ==
    IF ~p.strat.active THEN [p |-> p, log |-> <<>>]
    ELSE IF event.event.gaps = <<>> THEN [p |-> p, log |-> <<>>]
    ELSE LET chosen_symbol == ChosenSymbol(GapsOfEvent(event.event.gaps))
             p1 == [p EXCEPT !.strat.active_symbol = chosen_symbol,
                             !.strat.step_index = 1]
         IN publish_intent(p1, build_intent(chosen_symbol, 1, env.clock), env, depth)

\* _on_order_fill called by the bus
wired_on_order_fill(p, event, env, depth) ==
    IF ~p.strat.active \/ p.strat.active_intent_id = NoIntentId THEN [p |-> p, log |-> <<>>]
    ELSE IF ExtractIntentId(event.event) # p.strat.active_intent_id
    THEN [p |-> p, log |-> <<>>]
    ELSE IF auto_advance
    THEN IF p.strat.active_symbol = NoSymbol THEN [p |-> p, log |-> <<>>]
         ELSE LET p1 == [p EXCEPT !.strat.step_index = @ + 1]
              IN publish_intent(p1, build_intent(p1.strat.active_symbol,
                                                 p1.strat.step_index, env.clock),
                                env, depth)
    ELSE [p |-> p, log |-> <<>>]

\* _on_session_end called by the bus
wired_on_session_end(p, event) ==
    [p |-> [p EXCEPT !.strat = on_session_end(p.strat)], log |-> <<>>]

\* _on_session_start called by the bus: the gap snapshot, if there is one, is
\* published from inside the handler
wired_on_session_start(p, event, env, depth) ==
    LET r == on_session_start(p.ddp, p.store,
                              [timestamp |-> event.timestamp,
                               session_context |-> event.fields], {})
        p1 == [p EXCEPT !.ddp = r.ddp, !.store = r.store]
    IN IF r.published = <<>> THEN [p |-> p1, log |-> <<>>]
       ELSE pl_publish(p1, r.published[1], env, depth + 1)

\* the subscriber of IntentEvent: it may acknowledge the fill of the intent at
\* once, publishing an OrderFillEvent before it returns
risk_manager(p, event, env, depth) ==
    IF env.acks
    THEN pl_publish(p, [type |-> "OrderFillEvent",
                        event |-> [shape |-> "intent_id", id |-> event.event.intent_id]],
                    env, depth + 1)
    ELSE [p |-> p, log |-> <<>>]

\* h(event)
pl_call(handler, p, event, env, depth) ==
    CASE handler = "_on_session_start" -> wired_on_session_start(p, event, env, depth)
      [] handler = "_on_gap_snapshot" -> wired_on_gap_snapshot(p, event, env, depth)
      [] handler = "_on_order_fill" -> wired_on_order_fill(p, event, env, depth)
      [] handler = "_on_session_end" -> wired_on_session_end(p, event)
      [] handler = "risk_manager" -> risk_manager(p, event, env, depth)

\* for h in handlers: h(event), from the i-th handler on
RECURSIVE pl_call_handlers(_, _, _, _, _, _)
pl_call_handlers(handlers, i, p, event, env, depth) ==
    IF i > Len(handlers) THEN [p |-> p, log |-> <<>>]
    ELSE LET first == pl_call(handlers[i], p, event, env, depth)
             rest == pl_call_handlers(handlers, i + 1, first.p, event, env, depth)
         IN [p |-> rest.p, log |-> first.log \o rest.log]

\* (mutant) publish(event) returns before the handlers are called
pl_publish_returns_first(p, event, env, depth) ==
    LET r == pl_call_handlers(MatchingHandlers(event), 1, p, event, env, depth)
    IN [p |-> r.p,
        log |-> <<LogEntry("publish", event, depth, p.strat),
                  LogEntry("return", event, depth, p.strat)>> \o r.log]

\* publish(event): every matching handler is called before the call returns
pl_publish(p, event, env, depth) ==
    LET r == pl_call_handlers(MatchingHandlers(event), 1, p, event, env, depth)
    IN [p |-> r.p,
        log |-> <<LogEntry("publish", event, depth, p.strat)>> \o r.log
                    \o <<LogEntry("return", event, depth, r.p.strat)>>]

\* the events of a handler are published one after the other
RECURSIVE pl_publish_each(_, _, _, _, _)
pl_publish_each(events, i, p, env, depth) ==
    IF i > Len(events) THEN [p |-> p, log |-> <<>>]
    ELSE LET first == pl_publish(p, events[i], env, depth)
             rest == pl_publish_each(events, i + 1, first.p, env, depth)
         IN [p |-> rest.p, log |-> first.log \o rest.log]

\* on_candle_closed called with a closed candle: its events are published in
\* the order of its publish calls; no subscriber reads the detector's fields
wired_on_candle_closed(p, candle, env) ==
    LET after == on_candle_closed(p.det, p.heap, candle, env.clock.id)
    IN pl_publish_each(after.published, 1,
                       [p EXCEPT !.det = after.det, !.heap = after.heap], env, 1)

\* what a handler reads or decides while an operation runs: the clock's
\* readings and whether the subscriber of IntentEvent acknowledges at once
Environments == [clock : {c \in ClockReads : c.created = c.id}, acks : BOOLEAN]

\* the previous-day tables of the wired processor: an empty one and one with
\* two symbols under the threshold
PipelineTables == {t \in OhlcTables : \A s \in DOMAIN t : s = "A" => t[s] = RowAtThreshold}

\* the clock's reading when run_pre_market builds its snapshot
PipelineWallTimes == {t \in WallTimes : \A u \in WallTimes : t <= u}

\* run_pre_market is called on the wired processor
PlRunPreMarket(prev_day_ohlc, now) ==
    /\ pl_steps < MaxPipelineSteps
    /\ \E r \in {run_pre_market(wired.ddp, wired.store, cfg, hash_order, prev_day_ohlc, {}, now)} :
           wired' = [wired EXCEPT !.ddp = r.ddp, !.store = r.store]
    /\ pl_log' = <<>>
    /\ pl_last' = [op |-> "run_pre_market", sessions |-> Len(wired.heap)]
    /\ pl_steps' = pl_steps + 1
    /\ UNCHANGED <<cb_vars, sd_vars, st_vars, dp_vars, ds_vars, eb_vars, rl_vars>>

\* a closed candle, not older than the last one, reaches the detector
PlCandleClosed(candle, env) ==
    /\ pl_steps < MaxPipelineSteps
    /\ wired.det.active_session_date # None => candle.timestamp >= wired.det.last_candle_timestamp
    /\ \E r \in {wired_on_candle_closed(wired, candle, env)} :
           /\ wired' = r.p
           /\ pl_log' = r.log
    /\ pl_last' = [op |-> "on_candle_closed", sessions |-> Len(wired.heap)]
    /\ pl_steps' = pl_steps + 1
    /\ UNCHANGED <<cb_vars, sd_vars, st_vars, dp_vars, ds_vars, eb_vars, rl_vars>>

\* an OrderFillEvent for the active intent is published after the delivery of
\* that intent has returned
PlOrderFill(env) ==
    /\ pl_steps < MaxPipelineSteps
    /\ wired.strat.n_published > 0
    /\ \E r \in {pl_publish(wired, [type |-> "OrderFillEvent",
                                 event |-> [shape |-> "intent_id",
                                            id |-> wired.strat.active_intent_id]],
                            env, 1)} :
           /\ wired' = r.p
           /\ pl_log' = r.log
    /\ pl_last' = [op |-> "OrderFillEvent", sessions |-> Len(wired.heap)]
    /\ pl_steps' = pl_steps + 1
    /\ UNCHANGED <<cb_vars, sd_vars, st_vars, dp_vars, ds_vars, eb_vars, rl_vars>>

\* the closed candles of the wired detector: flat ones
PipelineCandles == {c \in Candles : c.low = c.high}

PlNext ==
    \/ \E prev_day_ohlc \in PipelineTables, now \in PipelineWallTimes :
           PlRunPreMarket(prev_day_ohlc, now)
    \/ \E env \in Environments :
           \/ \E candle \in PipelineCandles : PlCandleClosed(candle, env)
           \/ PlOrderFill(env)

\* ------------------------------------------------------------------------
\* the orders in which the buses of the two runs hold the subscribers: that of
\* run 1 is fixed, that of run 2 is any
SubscribeOrders == {q \in [Runs -> Permutations2(Handlers)] : q[1] = <<"h1", "h2">>}

\* the state after construction: a CandleBuilder with one of the timeframes, a
\* SessionBoundaryDetector per run on a bus with a subscription order, a
\* DummyStrategy per run with one of the auto_advance settings
Init(timeframes, orders, advances, configs, hash_orders, archives) ==
    \* CandleBuilder.__init__
    /\ timeframe \in timeframes
    /\ current_candles = [s \in Symbols |-> None]
    /\ candle_heap = <<>>
    /\ tick_result = [update |-> None, closed |-> None]
    /\ bus_log = <<>>
    /\ closed_log = <<>>
    /\ n_ticks = 0
    /\ last_tick = None
    /\ open_ticks = [s \in Symbols |-> <<>>]
    /\ closed_ticks = <<>>
    /\ closed_snapshot = <<>>
    /\ tick_volume = [s \in Symbols |-> 0]
    \* SessionBoundaryDetector.__init__
    /\ subscribers \in orders
    /\ sbd = [r \in Runs |->
                [det |-> [active_session_date |-> None,
                          active_session_context |-> None,
                          prev_day_open |-> None,
                          prev_day_high |-> None,
                          prev_day_low |-> None,
                          prev_day_close |-> None,
                          last_candle_timestamp |-> None],
                 ctx_heap |-> <<>>,
                 published |-> <<>>,
                 delivered |-> <<>>,
                 kept |-> <<>>,
                 session_log |-> <<>>]]
    /\ n_candles = 0
    /\ cur_session = NoHistory
    /\ prev_session = NoHistory
    \* DummyStrategy.__init__
    /\ strat = [r \in Runs |->
                  [active_symbol |-> NoSymbol,
                   step_index |-> 1,
                   active_intent_id |-> NoIntentId,
                   active |-> TRUE,
                   published |-> <<>>,
                   n_published |-> 0]]
    /\ auto_advance \in advances
    /\ known_ids = {}
    /\ n_inputs = 0
    /\ last_input = [kind |-> "none", gaps |-> <<>>,
                     fill |-> [shape |-> "none", id |-> NoIntentId]]
    \* config.py and DerivedDataProcessor.__init__ with an InMemoryDerivedDataStore
    /\ cfg \in configs
    /\ hash_order \in hash_orders
    /\ ddp = [effective_universe |-> <<>>,
              symbols_missing_prev_day_ohlc |-> {},
              filtered_records |-> <<>>,
              tradable_records |-> <<>>]
    /\ store = [symbols |-> NoTable,
                universe_snapshots |-> [len |-> 0, last |-> <<>>],
                gap_snapshots |-> [len |-> 0, last |-> <<>>]]
    /\ ddp_published = <<>>
    /\ ddp_last = [op |-> "none", today_open |-> 0, timestamp |-> 0,
                   fails |-> {}, raised |-> FALSE, persisted |-> 0]
    /\ pm_runs = <<>>
    /\ n_ops = 0
    /\ store_last = [op |-> "none", symbol |-> NoSymbol, step_index |-> 0,
                     side |-> "pos", result |-> NoPrice]
    \* EventBus.__init__
    /\ eb_subscribers = [k \in {} |-> <<>>]
    /\ eb_calls = <<>>
    /\ eb_last = [op |-> "none", event_type |-> "", handler |-> "", payload |-> 0]
    \* ReplayClock.__init__, ReplayLoader.__init__
    /\ rl_archive \in archives
    /\ rl_ticks = rl_archive
    /\ rl_clock = ReplayStart
    /\ rl_last = [op |-> "none", result |-> FALSE, delivered |-> <<>>]
    /\ rl_published = <<>>
    \* a detector, a processor with its store and a strategy on one bus
    /\ wired = [det |-> [active_session_date |-> None,
                      active_session_context |-> None,
                      prev_day_open |-> None,
                      prev_day_high |-> None,
                      prev_day_low |-> None,
                      prev_day_close |-> None,
                      last_candle_timestamp |-> None],
             heap |-> <<>>,
             ddp |-> [effective_universe |-> <<>>,
                      symbols_missing_prev_day_ohlc |-> {},
                      filtered_records |-> <<>>,
                      tradable_records |-> <<>>],
             store |-> [symbols |-> NoTable,
                        universe_snapshots |-> [len |-> 0, last |-> <<>>],
                        gap_snapshots |-> [len |-> 0, last |-> <<>>]],
             strat |-> [active_symbol |-> NoSymbol,
                        step_index |-> 1,
                        active_intent_id |-> NoIntentId,
                        active |-> TRUE,
                        published |-> <<>>,
                        n_published |-> 0]]
    /\ pl_log = <<>>
    /\ pl_last = [op |-> "none", sessions |-> 0]
    /\ pl_steps = 0

\* the configurations of the wired processor
PipelineConfigs == {c \in Configs : c.top_n = 2}

\* the components at rest
RestTimeframe == {SecondsPerMinute}
RestOrder == {[r \in Runs |-> <<"h1", "h2">>]}
RestAdvance == {TRUE}
RestConfig == {[symbol_universe |-> <<>>, manually_omitted_symbols |-> {}, top_n |-> 5]}
RestHashOrder == {<<"A", "B", "C">>}
RestArchive == {<<>>}

SpecCandle == Init(Timeframes, RestOrder, RestAdvance, RestConfig, RestHashOrder, RestArchive) /\ [][CbNext]_vars

SpecSession == Init(RestTimeframe, SubscribeOrders, RestAdvance, RestConfig, RestHashOrder, RestArchive) /\ [][SdNext]_vars

SpecStrategy == Init(RestTimeframe, RestOrder, BOOLEAN, RestConfig, RestHashOrder, RestArchive) /\ [][StNext]_vars

SpecProcessor == Init(RestTimeframe, RestOrder, RestAdvance, Configs, HashOrders, RestArchive) /\ [][DpNext]_vars

SpecStore == Init(RestTimeframe, RestOrder, RestAdvance, RestConfig, RestHashOrder, RestArchive) /\ [][DsNext]_vars

SpecBus == Init(RestTimeframe, RestOrder, RestAdvance, RestConfig, RestHashOrder, RestArchive) /\ [][EbNext]_vars

SpecReplay == Init(RestTimeframe, RestOrder, RestAdvance, RestConfig, RestHashOrder, Archives) /\ [][RlNext]_vars

SpecPipeline == Init(RestTimeframe, RestOrder, BOOLEAN, PipelineConfigs, RestHashOrder, RestArchive) /\ [][PlNext]_vars


\* ------------------------------------------------------------------------
\* Properties of the CandleBuilder (checked under SpecCandle)
\* ------------------------------------------------------------------------
RECURSIVE MaxPrice(_), MinPrice(_), SumVolume(_)
MaxPrice(ticks) ==
    IF Len(ticks) = 1 THEN ticks[1].price
    ELSE Max(ticks[1].price, MaxPrice(Tail(ticks)))
MinPrice(ticks) ==
    IF Len(ticks) = 1 THEN ticks[1].price
    ELSE Min(ticks[1].price, MinPrice(Tail(ticks)))
SumVolume(ticks) ==
    IF ticks = <<>> THEN 0 ELSE ticks[1].volume + SumVolume(Tail(ticks))

\* the candle is the fold of the ticks: first, maximum, minimum, last, sum
IsFoldOf(candle, ticks) ==
    /\ ticks # <<>>
    /\ candle.open = ticks[1].price
    /\ candle.high = MaxPrice(ticks)
    /\ candle.low = MinPrice(ticks)
    /\ candle.close = ticks[Len(ticks)].price
    /\ candle.volume = SumVolume(ticks)

\* C2: process_tick returns a closed candle exactly when the symbol had an open
\* candle and the tick's timestamp is >= that candle's end_time; the closed candle
\* is the fold (first, max, min, last price; volume sum) of the ticks it was built
\* from, the closing tick not among them: that tick alone seeds the new open candle.
C2_ClosedCandleCorrect ==
    n_ticks > 0 =>
        /\ (tick_result.closed # None) <=>
               (/\ last_tick.open_before # None
                /\ last_tick.tick.timestamp >= last_tick.end_before)
        /\ tick_result.closed # None =>
               /\ tick_result.closed = last_tick.open_before
               /\ IsFoldOf(candle_heap[tick_result.closed], closed_ticks)
               /\ tick_result.update # tick_result.closed
               /\ IsFoldOf(candle_heap[tick_result.update], <<last_tick.tick>>)
        /\ \A s \in Symbols : current_candles[s] # None =>
               IsFoldOf(candle_heap[current_candles[s]], open_ticks[s])

\* a candle of two or more ticks, with distinct high and low, has just been closed
\* by a tick whose timestamp is exactly its end_time
C2_Witness ==
    /\ tick_result.closed # None
    /\ Len(closed_ticks) >= 2
    /\ candle_heap[tick_result.closed].high > candle_heap[tick_result.closed].low
    /\ candle_heap[tick_result.closed].open # candle_heap[tick_result.closed].close
    /\ last_tick.tick.timestamp = candle_heap[tick_result.closed].end_time

\* C3: every tick publishes exactly one CandleUpdateEvent, carrying the candle that
\* is open for the tick's symbol after the tick; a CandleClosedEvent is published
\* for the tick iff process_tick returned a closed candle, it carries that candle,
\* and it comes after the CandleUpdateEvent of the same tick.
C3_UpdateThenClosed ==
    n_ticks > 0 =>
        /\ Len(bus_log) >= 1
        /\ bus_log[1] = [type |-> "CandleUpdateEvent",
                         payload |-> current_candles[last_tick.tick.symbol]]
        /\ Cardinality({i \in DOMAIN bus_log : bus_log[i].type = "CandleUpdateEvent"}) = 1
        /\ (tick_result.closed # None) <=>
               (\E i \in DOMAIN bus_log : bus_log[i].type = "CandleClosedEvent")
        /\ tick_result.closed # None =>
               /\ Len(bus_log) = 2
               /\ bus_log[2] = [type |-> "CandleClosedEvent", payload |-> tick_result.closed]
        /\ tick_result.closed = None => Len(bus_log) = 1

\* a tick has published both events
C3_Witness ==
    /\ n_ticks > 0
    /\ Len(bus_log) = 2
    /\ bus_log[2].type = "CandleClosedEvent"

\* the parts of C4
OneOpenCandlePerSymbol ==
    \A s \in Symbols :
        /\ (current_candles[s] # None) <=> (open_ticks[s] # <<>>)
        /\ current_candles[s] # None =>
               /\ candle_heap[current_candles[s]].symbol = s
               /\ \A k \in DOMAIN closed_log : closed_log[k] # current_candles[s]
        /\ Cardinality({i \in DOMAIN candle_heap :
                           /\ candle_heap[i].symbol = s
                           /\ \A k \in DOMAIN closed_log : closed_log[k] # i})
               = IF open_ticks[s] = <<>> THEN 0 ELSE 1

ClosedAtMostOnce ==
    \A j, k \in DOMAIN closed_log : closed_log[j] = closed_log[k] => j = k

ClosedAsSoonAsElapsed ==
    n_ticks > 0 =>
        ((last_tick.open_before # None /\ last_tick.tick.timestamp >= last_tick.end_before)
            <=> (closed_log # <<>> /\ closed_log[Len(closed_log)] = last_tick.open_before))

ClosedNeverModified ==
    \A k \in DOMAIN closed_log : candle_heap[closed_log[k]] = closed_snapshot[k]

ClosedStartsIncrease ==
    \A j, k \in DOMAIN closed_log :
        (j < k /\ candle_heap[closed_log[j]].symbol = candle_heap[closed_log[k]].symbol)
            => candle_heap[closed_log[j]].start_time < candle_heap[closed_log[k]].start_time

\* C4: after the first tick of a symbol it has exactly one open candle; a candle is
\* published as closed at most once, and exactly when a tick of its symbol with
\* timestamp >= its end_time is processed; a closed candle is never modified
\* afterwards; the start_time of a symbol's successive closed candles increases
\* strictly (timestamps are non-decreasing per symbol in every run of the model).
C4_OneOpenClosedOnce ==
    /\ OneOpenCandlePerSymbol
    /\ ClosedAtMostOnce
    /\ ClosedAsSoonAsElapsed
    /\ ClosedNeverModified
    /\ ClosedStartsIncrease

\* what C4 says, for the timeframes of at least one minute
C4_HoldsFromOneMinute ==
    /\ OneOpenCandlePerSymbol
    /\ ClosedAtMostOnce
    /\ ClosedAsSoonAsElapsed
    /\ ClosedNeverModified
    /\ timeframe >= SecondsPerMinute => ClosedStartsIncrease

\* C5: for every configured timeframe, the candle a tick opens starts at the tick's
\* timestamp truncated to a multiple of the timeframe and ends one timeframe later,
\* so that start_time <= timestamp < end_time for the opening tick.
C5_WindowOfOpeningTick ==
    \A s \in Symbols :
        (current_candles[s] # None /\ Len(open_ticks[s]) = 1) =>
            LET c == candle_heap[current_candles[s]]
                ts == open_ticks[s][1].timestamp
            IN /\ c.start_time = ts - (ts % timeframe)
               /\ c.end_time = c.start_time + timeframe
               /\ c.start_time <= ts
               /\ ts < c.end_time

\* what C5 says, for the one-minute timeframe
C5_HoldsForOneMinute ==
    timeframe = SecondsPerMinute => C5_WindowOfOpeningTick


\* ------------------------------------------------------------------------
\* Properties of the SessionBoundaryDetector (checked under SpecSession)
\* ------------------------------------------------------------------------
SetMax(S) == CHOOSE x \in S : \A y \in S : y <= x
SetMin(S) == CHOOSE x \in S : \A y \in S : x <= y

\* the three cases of a candle, read off the history of the stream
FirstCandle == n_candles = 1
SameDateCandle == n_candles > 1 /\ cur_session.count > 1
DateChangeCandle == n_candles > 1 /\ cur_session.count = 1

CountOf(log, type) == Cardinality({i \in DOMAIN log : log[i] = type})

\* started, ended, started, ...
Alternates(log) ==
    \A i \in DOMAIN log :
        log[i] = IF i % 2 = 1 THEN "SessionStartEvent" ELSE "SessionEndEvent"

ActiveContexts(heap) == {i \in DOMAIN heap : heap[i].session_end_timestamp = None}

\* C6: the session events alternate started, ended, started, ...: the first candle
\* publishes one SessionStartEvent and no SessionEndEvent, a candle of the active
\* date publishes nothing, a candle of another date publishes exactly one
\* SessionEndEvent for the old session and then exactly one SessionStartEvent for
\* the new one; after the first candle there is one more started than ended and
\* exactly one session is active.
C6_SessionsAlternate ==
    \A r \in Runs :
        LET run == sbd[r]
            pub == run.published
        IN /\ Alternates(run.session_log)
           /\ FirstCandle =>
                 /\ Len(pub) = 1
                 /\ pub[1].type = "SessionStartEvent"
           /\ SameDateCandle => pub = <<>>
           /\ DateChangeCandle =>
                 /\ Len(pub) = 2
                 /\ pub[1].type = "SessionEndEvent"
                 /\ pub[1].fields.session_date = CandleDate(prev_session.last_ts)
                 /\ pub[2].type = "SessionStartEvent"
                 /\ pub[2].fields.session_date = CandleDate(cur_session.first_ts)
                 /\ pub[1].session_context # pub[2].session_context
           /\ n_candles >= 1 =>
                 /\ CountOf(run.session_log, "SessionStartEvent")
                       = CountOf(run.session_log, "SessionEndEvent") + 1
                 /\ ActiveContexts(run.ctx_heap) = {run.det.active_session_context}
                 /\ run.ctx_heap[run.det.active_session_context].session_date
                       = run.det.active_session_date
                 /\ run.det.active_session_date = CandleDate(cur_session.last_ts)

\* three sessions have started and two have ended
C6_Witness ==
    /\ DateChangeCandle
    /\ sbd[1].session_log = <<"SessionStartEvent", "SessionEndEvent", "SessionStartEvent",
                              "SessionEndEvent", "SessionStartEvent">>

\* C7: at every date change the context of the new session carries prev_day_open =
\* open of the first candle, prev_day_high = maximum high, prev_day_low = minimum
\* low, prev_day_close = close of the last candle of the session that just ended,
\* and of no other candle.
C7_PrevDayIsEndedSession ==
    DateChangeCandle =>
        \A r \in Runs :
            LET ctx == sbd[r].ctx_heap[sbd[r].det.active_session_context]
            IN /\ ctx.prev_day_open = prev_session.first_open
               /\ ctx.prev_day_high = SetMax(prev_session.highs)
               /\ ctx.prev_day_low = SetMin(prev_session.lows)
               /\ ctx.prev_day_close = prev_session.last_close
               /\ sbd[r].published[2].fields = ctx

\* the third session starts after a second session of two candles whose highs and
\* lows differ from each other and from the candle that starts the third session
C7_Witness ==
    /\ DateChangeCandle
    /\ Len(sbd[1].ctx_heap) = 3
    /\ prev_session.count = 2
    /\ Cardinality(prev_session.highs) = 2
    /\ Cardinality(prev_session.lows) = 2
    /\ prev_session.first_open # prev_session.last_close
    /\ cur_session.first_open # prev_session.first_open

\* C8: the first candle a detector processes publishes a SessionStartEvent with the
\* candle's timestamp, whose context has the candle's date, session_start_timestamp
\* = the candle's timestamp, no session_end_timestamp, today_open = the candle's
\* open and prev_day_open/high/low/close = the candle's open/high/low/close.
C8_Bootstrap ==
    FirstCandle =>
        \A r \in Runs :
            /\ Len(sbd[r].published) = 1
            /\ LET e == sbd[r].published[1] IN
               /\ e.type = "SessionStartEvent"
               /\ e.timestamp = cur_session.first_ts
               /\ e.session_context = sbd[r].det.active_session_context
               /\ e.fields = sbd[r].ctx_heap[e.session_context]
               /\ e.fields = [session_date |-> CandleDate(cur_session.first_ts),
                              session_start_timestamp |-> cur_session.first_ts,
                              session_end_timestamp |-> None,
                              today_open |-> cur_session.first_open,
                              prev_day_open |-> cur_session.first_open,
                              prev_day_high |-> SetMax(cur_session.highs),
                              prev_day_low |-> SetMin(cur_session.lows),
                              prev_day_close |-> cur_session.last_close]

\* the first candle has been processed, and its open, high, low and close differ
C8_Witness ==
    /\ FirstCandle
    /\ cur_session.first_open # cur_session.last_close
    /\ SetMax(cur_session.highs) # SetMin(cur_session.lows)
    /\ Len(sbd[1].published) = 1

\* C9: the context a consumer received with a SessionStartEvent never changes:
\* read through the reference the consumer kept, it has the fields it had on receipt.
C9_ContextNeverChanges ==
    \A r \in Runs :
        \A k \in DOMAIN sbd[r].kept :
            sbd[r].ctx_heap[sbd[r].kept[k].session_context] = sbd[r].kept[k].fields

\* what does hold of a kept context: only session_end_timestamp changes, once, at
\* the date change that ends the session, to the last timestamp of that session
C9_OnlyEndTimestampIsFilledIn ==
    \A r \in Runs :
        \A k \in DOMAIN sbd[r].kept :
            LET now_ctx == sbd[r].ctx_heap[sbd[r].kept[k].session_context]
                seen == sbd[r].kept[k].fields
            IN /\ [now_ctx EXCEPT !.session_end_timestamp = None] = seen
               /\ (now_ctx.session_end_timestamp = None)
                     <=> (sbd[r].kept[k].session_context = sbd[r].det.active_session_context)

\* the value of an event: its type, its timestamp and the fields of its context
EventValue(e) == [type |-> e.type, timestamp |-> e.timestamp, fields |-> e.fields]
EventValues(events) == [i \in DOMAIN events |-> EventValue(events[i])]

\* what one handler received, in order
ReceivedBy(h, calls) ==
    EventValues([i \in 1..Len(SelectSeq(calls, LAMBDA c : c.handler = h)) |->
                    SelectSeq(calls, LAMBDA c : c.handler = h)[i].event])

\* C10: two fresh detectors given the same candles publish the same sequence of
\* (type, timestamp, context fields), and every handler receives the same sequence,
\* whatever the clocks of the two runs read and in whatever order the handlers are
\* stored (candle by candle, hence for the whole sequence).
C10_DetectorDeterministic ==
    /\ EventValues(sbd[1].published) = EventValues(sbd[2].published)
    /\ sbd[1].session_log = sbd[2].session_log
    /\ \A h \in Handlers :
           /\ ReceivedBy(h, sbd[1].delivered) = ReceivedBy(h, sbd[2].delivered)
           /\ ReceivedBy(h, sbd[1].delivered) = EventValues(sbd[1].published)
    /\ [k \in DOMAIN sbd[1].kept |-> EventValue(sbd[1].kept[k])]
           = [k \in DOMAIN sbd[2].kept |-> EventValue(sbd[2].kept[k])]

\* a date change has been handled by two runs whose buses store the handlers in
\* different orders (their clocks never read the same)
C10_Witness ==
    /\ DateChangeCandle
    /\ subscribers[1] # subscribers[2]
    /\ Len(sbd[1].published) = 2
    /\ Len(sbd[2].delivered) = 4

\* ------------------------------------------------------------------------
\* Claims about the strategy (SpecStrategy)
\* ------------------------------------------------------------------------

\* C1: two runs given the same configuration and the same ordered inputs emit
\* identical events, the intent_id and created_at of every IntentEvent included:
\* for every input, the IntentEvents the strategy of run 1 publishes are those
\* the strategy of run 2 publishes, and both have published equally many.
C1_PipelineDeterministic ==
    /\ strat[1].published = strat[2].published
    /\ strat[1].n_published = strat[2].n_published

\* what does hold of two runs: an IntentEvent published for the same input by
\* both differs at most in the clock readings it carries, and in the step the
\* runs have reached
C1_SameUpToClockAndStep ==
    \A i \in DOMAIN strat[1].published \cap DOMAIN strat[2].published :
        LET a == strat[1].published[i]
            b == strat[2].published[i]
        IN /\ a.strategy_id = b.strategy_id
           /\ a.triggers[1].side = b.triggers[1].side
           /\ a.triggers[2].side = b.triggers[2].side
           /\ a.auto_advance = b.auto_advance
           /\ last_input.kind = "GapSnapshotEvent" => a.symbol = b.symbol

\* ------------------------------------------------------------------------
\* Claims about the derived-data processor (SpecProcessor)
\* ------------------------------------------------------------------------
Occurrences(seq, x) == Cardinality({i \in DOMAIN seq : seq[i] = x})
Elements(seq) == {seq[i] : i \in DOMAIN seq}
IndexOf(seq, x) == CHOOSE i \in DOMAIN seq : seq[i] = x

\* the last operation was a run_pre_market that returned: it published a snapshot
PreMarketReturned == ddp_last.op = "run_pre_market" /\ ~ddp_last.raised
LastSnapshot == ddp_published[1].event
LastTable == pm_runs[Len(pm_runs)].table

\* C11: after run_pre_market every configured, non-omitted symbol is exactly once
\* in filtered_symbols (it has a row in the OHLC table) or exactly once in
\* symbols_missing_prev_day_ohlc (it has none), never in both; omitted symbols and
\* symbols outside the configured universe are in neither; effective_universe is
\* the non-omitted symbols in the configured order.
C11_UniversePartition ==
    PreMarketReturned =>
        LET snap == LastSnapshot
            configured == Elements(cfg.symbol_universe)
            kept == configured \ cfg.manually_omitted_symbols
        IN /\ \A s \in kept :
                 /\ Occurrences(snap.filtered_symbols, s)
                      + Occurrences(snap.symbols_missing_prev_day_ohlc, s) = 1
                 /\ Occurrences(snap.filtered_symbols, s) = 1 <=> s \in DOMAIN LastTable
           /\ \A s \in UniverseSymbols \ kept :
                 /\ Occurrences(snap.filtered_symbols, s) = 0
                 /\ Occurrences(snap.symbols_missing_prev_day_ohlc, s) = 0
           /\ Elements(snap.effective_universe) = kept
           /\ \A s \in kept : Occurrences(snap.effective_universe, s) = 1
           /\ \A i, j \in DOMAIN snap.effective_universe :
                 i < j => IndexOf(cfg.symbol_universe, snap.effective_universe[i])
                            < IndexOf(cfg.symbol_universe, snap.effective_universe[j])

\* a run over a universe with an omitted symbol that has a row, a symbol
\* without a row and a symbol with one
C11_Witness ==
    /\ PreMarketReturned
    /\ cfg.manually_omitted_symbols = {"A"}
    /\ "A" \in DOMAIN LastTable
    /\ LastSnapshot.symbols_missing_prev_day_ohlc = <<"C">>
    /\ LastSnapshot.filtered_symbols = <<"B">>

\* the width the last run computed for a symbol that has a row in its table
WidthOf(s) == DerivedRecords[s][LastTable[s]].cpr_width_pct
IsAscending(symbols) ==
    \A i, j \in DOMAIN symbols :
        i < j => ~RatLess(WidthOf(symbols[j]), WidthOf(symbols[i]))

\* C12 (as stated): the snapshot's filtered_symbols contains only symbols whose
\* cpr_width_pct is strictly below the threshold.
C12_FilteredUnderThreshold ==
    PreMarketReturned =>
        \A i \in DOMAIN LastSnapshot.filtered_symbols :
            RatLess(WidthOf(LastSnapshot.filtered_symbols[i]), threshold_pct)

\* C12 (amended): filtered_symbols lists every symbol with a computed record,
\* whatever its width, in ascending cpr_width_pct order; the strict threshold
\* applies to tradable_symbols, which are taken from filtered_symbols.
C12_FilteredAllComputed ==
    PreMarketReturned =>
        LET snap == LastSnapshot
        IN /\ Elements(snap.filtered_symbols)
                = Elements(snap.effective_universe) \cap DOMAIN LastTable
           /\ IsAscending(snap.filtered_symbols)
           /\ \A i \in DOMAIN snap.tradable_symbols :
                 /\ RatLess(WidthOf(snap.tradable_symbols[i]), threshold_pct)
                 /\ snap.tradable_symbols[i] \in Elements(snap.filtered_symbols)

\* a run whose filtered_symbols holds a symbol exactly at the threshold and a
\* symbol below it, only the latter being tradable
C12_Witness ==
    /\ PreMarketReturned
    /\ \E i \in DOMAIN LastSnapshot.filtered_symbols :
          WidthOf(LastSnapshot.filtered_symbols[i]) = threshold_pct
    /\ LastSnapshot.tradable_symbols # <<>>
    /\ Len(LastSnapshot.tradable_symbols) < Len(LastSnapshot.filtered_symbols)

\* the effective-universe symbols of the last run whose width is under the threshold
UnderThresholdSymbols ==
    {s \in Elements(LastSnapshot.effective_universe) \cap DOMAIN LastTable :
        RatLess(WidthOf(s), threshold_pct)}

\* C13: tradable_symbols is the first min(top_n, k) of the k under-threshold
\* records in ascending width order: at most top_n entries, each under the
\* threshold, ascending by width, without repetition, and no under-threshold
\* symbol left out is strictly narrower than one included.
C13_TradableTopN ==
    PreMarketReturned =>
        LET tradable == LastSnapshot.tradable_symbols
        IN /\ Len(tradable) = Min(cfg.top_n, Cardinality(UnderThresholdSymbols))
           /\ Len(tradable) <= cfg.top_n
           /\ Elements(tradable) \subseteq UnderThresholdSymbols
           /\ Cardinality(Elements(tradable)) = Len(tradable)
           /\ IsAscending(tradable)
           /\ \A out \in UnderThresholdSymbols \ Elements(tradable) :
                 \A i \in DOMAIN tradable :
                     ~RatLess(WidthOf(out), WidthOf(tradable[i]))

\* a run with more under-threshold symbols than top_n, of different widths
C13_Witness ==
    /\ PreMarketReturned
    /\ Cardinality(UnderThresholdSymbols) > cfg.top_n
    /\ Len(LastSnapshot.tradable_symbols) = cfg.top_n
    /\ \E out \in UnderThresholdSymbols \ Elements(LastSnapshot.tradable_symbols) :
          RatLess(WidthOf(LastSnapshot.tradable_symbols[1]), WidthOf(out))

NoDuplicates(seq) == Cardinality(Elements(seq)) = Len(seq)

\* C14: two run_pre_market calls on the same processor with the same universe
\* configuration and the same OHLC table give snapshots with identical
\* filtered_symbols, tradable_symbols and symbols_missing_prev_day_ohlc, element
\* for element; the second run keeps nothing of the first run's records: no
\* symbol is listed twice.
C14_PreMarketIdempotent ==
    (Len(pm_runs) = 2 /\ pm_runs[1].table = pm_runs[2].table) =>
        /\ pm_runs[2].filtered_symbols = pm_runs[1].filtered_symbols
        /\ pm_runs[2].tradable_symbols = pm_runs[1].tradable_symbols
        /\ pm_runs[2].symbols_missing_prev_day_ohlc
             = pm_runs[1].symbols_missing_prev_day_ohlc
        /\ NoDuplicates(pm_runs[2].filtered_symbols)
        /\ NoDuplicates(pm_runs[2].tradable_symbols)
        /\ NoDuplicates(pm_runs[2].symbols_missing_prev_day_ohlc)

\* two consecutive runs over the same table, with computed, tradable and
\* missing symbols
C14_Witness ==
    /\ Len(pm_runs) = 2
    /\ pm_runs[1].table = pm_runs[2].table
    /\ PreMarketReturned
    /\ n_ops = 2
    /\ pm_runs[2].filtered_symbols # <<>>
    /\ pm_runs[2].tradable_symbols # <<>>
    /\ pm_runs[2].symbols_missing_prev_day_ohlc # <<>>

\* C15: a failing store persistence call (persist_symbol_data,
\* persist_universe_snapshot, persist_gap_snapshot) is never propagated and
\* never aborts the operation: run_pre_market still publishes its snapshot and
\* the session-start handler, when there are tradables, still publishes its
\* gap snapshot.
C15_PersistFailureNeverAborts ==
    ddp_last.fails # {} =>
        /\ ~ddp_last.raised
        /\ ddp_last.op = "run_pre_market" =>
              /\ Len(ddp_published) = 1
              /\ ddp_published[1].type = "DerivedUniverseSnapshot"
        /\ (ddp_last.op = "on_session_start" /\ ddp.tradable_records # <<>>) =>
              /\ Len(ddp_published) = 1
              /\ ddp_published[1].type = "GapSnapshotEvent"

\* the part of C15 the code keeps: a failing persist_symbol_data is swallowed
C15_SymbolDataFailureSwallowed ==
    (ddp_last.op = "run_pre_market" /\ ddp_last.fails = {"persist_symbol_data(A)"}) =>
        /\ ~ddp_last.raised
        /\ Len(ddp_published) = 1
        /\ ddp_published[1].type = "DerivedUniverseSnapshot"

\* the last operation was the session-start handler
SessionStartHandled == ddp_last.op = "on_session_start"

\* C16: when the tradable set is empty at a "session started" signal (no
\* pre-market run yet, every symbol without a row, or no symbol under the
\* threshold) the handler neither publishes nor persists a GapSnapshot, not
\* even an empty one.
C16_NoTradablesNoGapSnapshot ==
    (SessionStartHandled /\ ddp.tradable_records = <<>>) =>
        /\ ddp_published = <<>>
        /\ ddp_last.persisted = 0
        /\ ~ddp_last.raised

\* a session start after a pre-market run that computed records, none of them
\* under the threshold
C16_Witness ==
    /\ SessionStartHandled
    /\ ddp.tradable_records = <<>>
    /\ ddp.filtered_records # <<>>
    /\ ddp_published = <<>>
    /\ store.gap_snapshots.len = 0

\* the handler published one GapSnapshot, the one it persisted, stamped with
\* the signal's timestamp, with one entry per tradable record and the gap of
\* each computed from the session's today_open and the record's prev_close
GapSnapshotProduced ==
    /\ ~ddp_last.raised
    /\ Len(ddp_published) = 1
    /\ ddp_published[1].type = "GapSnapshotEvent"
    /\ ddp_last.persisted = 1
    /\ store.gap_snapshots.last = <<ddp_published[1].event>>
    /\ ddp_published[1].event.timestamp = ddp_last.timestamp
    /\ LET gaps == ddp_published[1].event.gaps
           tradable == ddp.tradable_records
       IN /\ Len(gaps) = Len(tradable)
          /\ \A i \in DOMAIN gaps :
                /\ gaps[i].symbol = tradable[i].symbol
                /\ gaps[i].today_open = ddp_last.today_open
                /\ gaps[i].prev_close = tradable[i].prev_close
                /\ gaps[i].gap_pct
                     = Rat((ddp_last.today_open - tradable[i].prev_close) * 100,
                           tradable[i].prev_close)
                /\ gaps[i].gap_pct_abs.num = Abs(gaps[i].gap_pct.num)
                /\ gaps[i].gap_pct_abs.den = gaps[i].gap_pct.den
                /\ gaps[i].gap_pct_abs.num >= 0

\* C17: every "session started" signal received while the tradable set is
\* non-empty produces exactly one GapSnapshot, persisted and then published,
\* with the signal's timestamp and one gaps entry per tradable symbol of the
\* most recent pre-market run: today_open of the session context, the record's
\* prev_close, gap_pct = (today_open - prev_close) / prev_close * 100 and
\* gap_pct_abs = |gap_pct| >= 0.
C17_GapSnapshotPerSessionStart ==
    (SessionStartHandled /\ ddp.tradable_records # <<>>) => GapSnapshotProduced

\* C17 holds of every session start whose persist_gap_snapshot call succeeds
C17_HoldsWhenPersistSucceeds ==
    (SessionStartHandled /\ ddp.tradable_records # <<>> /\ ddp_last.fails = {})
        => GapSnapshotProduced

\* a gap snapshot with a negative and a positive gap is produced
C17_NegativeAndPositiveGap ==
    /\ SessionStartHandled
    /\ GapSnapshotProduced
    /\ \E i, j \in DOMAIN ddp_published[1].event.gaps :
          /\ ddp_published[1].event.gaps[i].gap_pct.num < 0
          /\ ddp_published[1].event.gaps[j].gap_pct.num > 0

\* ---------------------------------------------------------------------------
\* Claims about the strategy
\* ---------------------------------------------------------------------------

\* this step delivers an event of the kind to the strategies
Delivers(kind) == n_inputs' = n_inputs + 1 /\ last_input'.kind = kind

\* the handler of this step left the strategy of run r as it was and published nothing
Ignored(r) ==
    /\ strat'[r].published = <<>>
    /\ strat'[r].active = strat[r].active
    /\ strat'[r].active_symbol = strat[r].active_symbol
    /\ strat'[r].step_index = strat[r].step_index
    /\ strat'[r].active_intent_id = strat[r].active_intent_id
    /\ strat'[r].n_published = strat[r].n_published

\* the handler of this step published exactly one IntentEvent, for the symbol
\* at the step with a LONG and a SHORT trigger, and recorded its id as active
PublishedOne(r, symbol, step_index) ==
    /\ Len(strat'[r].published) = 1
    /\ strat'[r].n_published = strat[r].n_published + 1
    /\ LET intent == strat'[r].published[1]
       IN /\ intent.symbol = symbol
          /\ Len(intent.triggers) = 2
          /\ {intent.triggers[i].side : i \in {1, 2}} = {"LONG", "SHORT"}
          /\ \A i \in {1, 2} : intent.triggers[i].step_index = step_index
          /\ strat'[r].active_intent_id = intent.intent_id
    /\ strat'[r].active_symbol = symbol
    /\ strat'[r].step_index = step_index
    /\ strat'[r].active

\* the first entry of the gaps, in iteration order, with the least gap_pct_abs
IsFirstMinimum(gaps, i) ==
    /\ \A j \in DOMAIN gaps : gaps[i].gap_pct_abs <= gaps[j].gap_pct_abs
    /\ \A j \in DOMAIN gaps : j < i => gaps[j].gap_pct_abs # gaps[i].gap_pct_abs

\* C18: an active strategy with no selected symbol (Idle) that receives a gap
\* snapshot with non-empty gaps selects the symbol with the least gap_pct_abs (on
\* a tie the first in iteration order), sets step_index to 1, publishes exactly
\* one IntentEvent for it with a LONG and a SHORT trigger at step 1 and records
\* its id as the active one; with empty gaps it publishes nothing and its state
\* is unchanged.
C18_IdleGapSnapshotArms ==
    [][Delivers("GapSnapshotEvent") =>
          \A r \in Runs :
              (strat[r].active /\ strat[r].active_symbol = NoSymbol) =>
                  LET gaps == last_input'.gaps
                  IN IF gaps = <<>>
                     THEN Ignored(r)
                     ELSE \E i \in DOMAIN gaps :
                              /\ IsFirstMinimum(gaps, i)
                              /\ PublishedOne(r, gaps[i].symbol, 1)]_vars

\* an idle strategy received two gaps with the same gap_pct_abs and selected
\* the first
C18_Witness ==
    /\ last_input.kind = "GapSnapshotEvent"
    /\ n_inputs = 1
    /\ Len(last_input.gaps) = 2
    /\ last_input.gaps[1].gap_pct_abs = last_input.gaps[2].gap_pct_abs
    /\ \A r \in Runs :
          /\ strat[r].active_symbol = last_input.gaps[1].symbol
          /\ Len(strat[r].published) = 1
          /\ strat[r].active_intent_id = strat[r].published[1].intent_id

\* the strategy of run r is Armed: active, with a symbol and an active intent
Armed(r) ==
    /\ strat[r].active
    /\ strat[r].active_symbol # NoSymbol
    /\ strat[r].active_intent_id # NoIntentId

\* the intent id the fill event of this step carries
FillIntentId == IF last_input'.fill.shape = "none" THEN NoIntentId ELSE last_input'.fill.id

Deactivated(st) ==
    /\ ~st.active
    /\ st.active_symbol = NoSymbol
    /\ st.active_intent_id = NoIntentId

\* C20: a strategy that receives a "session ended" signal, in whatever state,
\* is deactivated for good: its active symbol and intent id are cleared and it
\* never publishes another IntentEvent, whatever gap snapshot or fill (also one
\* with the previously active intent id) arrives afterwards.
C20_SessionEndDeactivates ==
    [][\A r \in Runs :
          /\ Delivers("SessionEndEvent") =>
                 /\ Deactivated(strat'[r])
                 /\ strat'[r].published = <<>>
                 /\ strat'[r].n_published = strat[r].n_published
          /\ ~strat[r].active =>
                 /\ Deactivated(strat'[r])
                 /\ strat'[r].published = <<>>
                 /\ strat'[r].n_published = strat[r].n_published]_vars

\* an Armed strategy was ended and then received a fill with the intent id it
\* had published
C20_Witness ==
    /\ n_inputs = 3
    /\ last_input.kind = "OrderFillEvent"
    /\ last_input.fill.shape = "intent_id"
    /\ last_input.fill.id # NoIntentId
    /\ \A r \in Runs :
          /\ Deactivated(strat[r])
          /\ strat[r].n_published = 1
          /\ strat[r].published = <<>>

\* this step made the strategy of run r publish an IntentEvent
Publishes(r) == n_inputs' = n_inputs + 1 /\ strat'[r].published # <<>>

\* C21: within one symbol selection the step_index of the successively published
\* IntentEvents is 1, 2, 3, ...: the intent published on arming has step 1, each
\* later one exactly one more than the one published before it, both triggers of
\* an intent carry the same step_index, and the symbol stays the one selected.
C21_StepIndexCountsUp ==
    [][\A r \in Runs :
          Publishes(r) =>
              LET intent == strat'[r].published[1]
                  previous == strat[r].active_intent_id
              IN /\ Len(strat'[r].published) = 1
                 /\ intent.triggers[1].step_index = intent.triggers[2].step_index
                 /\ intent.intent_id.step_index = intent.triggers[1].step_index
                 /\ IF last_input'.kind = "GapSnapshotEvent"
                    THEN intent.triggers[1].step_index = 1
                    ELSE /\ previous # NoIntentId
                         /\ intent.triggers[1].step_index = previous.step_index + 1
                         /\ intent.symbol = previous.symbol
                         /\ intent.symbol = strat[r].active_symbol]_vars

\* a selection has reached step 3
C21_Witness ==
    /\ last_input.kind = "OrderFillEvent"
    /\ \A r \in Runs :
          /\ strat[r].n_published = 3
          /\ Len(strat[r].published) = 1
          /\ strat[r].published[1].triggers[1].step_index = 3
          /\ strat[r].published[1].triggers[2].step_index = 3

\* C22: intent_id is globally unique: whatever gap snapshots, fills and session
\* ends arrive and whatever the wall clock reads, no two IntentEvents published
\* by a system carry the same intent_id; so the IntentEvent a strategy publishes
\* never carries the id of the IntentEvent it published before, its active one.
C22_IntentIdUnique ==
    [][\A r \in Runs :
          Publishes(r) =>
              \A i \in DOMAIN strat'[r].published :
                  strat'[r].published[i].intent_id # strat[r].active_intent_id]_vars

\* C26: a fill whose intent_id differs from the active intent id, or that
\* arrives while the strategy has no active intent (Idle or Deactivated), is a
\* no-op: step_index, active symbol, active intent id and the active flag are
\* unchanged and no IntentEvent is published.
C26_UnmatchedFillIgnored ==
    [][Delivers("OrderFillEvent") =>
          \A r \in Runs :
              (FillIntentId # strat[r].active_intent_id
                 \/ strat[r].active_intent_id = NoIntentId) => Ignored(r)]_vars

\* an Armed strategy at step 2 received a fill with the id of its step 1 intent
C26_Witness ==
    /\ last_input.kind = "OrderFillEvent"
    /\ n_inputs = 3
    /\ last_input.fill.shape = "intent.intent_id"
    /\ last_input.fill.id.step_index = 1
    /\ \A r \in Runs :
          /\ strat[r].active
          /\ strat[r].step_index = 2
          /\ strat[r].active_intent_id.step_index = 2
          /\ strat[r].published = <<>>
          /\ strat[r].n_published = 2

\* C27: with auto_advance disabled a fill matching the active intent id changes
\* nothing: step_index, active symbol and active intent id keep their values
\* and no IntentEvent is published, for every such fill, so that the strategy
\* stays at step 1 of the selected symbol.
C27_NoAdvanceWhenDisabled ==
    [][~auto_advance =>
          \A r \in Runs :
              /\ Delivers("OrderFillEvent") => Ignored(r)
              /\ strat'[r].step_index = 1]_vars

\* with auto_advance disabled an Armed strategy received, as its third input, a
\* fill with its active intent id, and is still at step 1
C27_Witness ==
    /\ ~auto_advance
    /\ n_inputs = 3
    /\ last_input.kind = "OrderFillEvent"
    /\ last_input.fill.shape = "intent_id"
    /\ \A r \in Runs :
          /\ strat[r].active
          /\ strat[r].active_intent_id = last_input.fill.id
          /\ strat[r].n_published = 1
          /\ strat[r].step_index = 1
          /\ strat[r].published = <<>>

\* ---------------------------------------------------------------------------
\* Further claims about the session boundary detector
\* ---------------------------------------------------------------------------

\* C28: at a date change the SessionEndEvent carries the context of the session
\* that ended with session_end_timestamp already set, in what every subscriber
\* is handed, to the timestamp of the last candle of that session; the event's
\* own timestamp is that value, and session_start_timestamp <=
\* session_end_timestamp < the timestamp of the SessionStartEvent that follows,
\* candle timestamps being non-decreasing.
C28_EndEventCarriesEndTimestamp ==
    DateChangeCandle =>
        \A r \in Runs :
            LET end_event == sbd[r].published[1]
                start_event == sbd[r].published[2]
            IN /\ end_event.type = "SessionEndEvent"
               /\ end_event.fields.session_date = CandleDate(prev_session.last_ts)
               /\ end_event.fields.session_end_timestamp = prev_session.last_ts
               /\ end_event.timestamp = prev_session.last_ts
               /\ \A i \in DOMAIN sbd[r].delivered :
                     sbd[r].delivered[i].event.type = "SessionEndEvent" =>
                         /\ sbd[r].delivered[i].event.fields.session_end_timestamp
                               = prev_session.last_ts
                         /\ sbd[r].delivered[i].event.timestamp = prev_session.last_ts
               /\ \E i \in DOMAIN sbd[r].delivered :
                     sbd[r].delivered[i].event.type = "SessionEndEvent"
               /\ end_event.fields.session_start_timestamp = prev_session.first_ts
               /\ end_event.fields.session_start_timestamp
                     <= end_event.fields.session_end_timestamp
               /\ start_event.type = "SessionStartEvent"
               /\ end_event.fields.session_end_timestamp < start_event.timestamp

\* a session of two candles with different timestamps has ended
C28_Witness ==
    /\ DateChangeCandle
    /\ prev_session.count = 2
    /\ prev_session.first_ts < prev_session.last_ts
    /\ \A r \in Runs :
          /\ Len(sbd[r].published) = 2
          /\ sbd[r].published[1].fields.session_end_timestamp = prev_session.last_ts
          /\ sbd[r].published[1].fields.session_start_timestamp = prev_session.first_ts

\* ---------------------------------------------------------------------------
\* Further claims about the derived-data processor
\* ---------------------------------------------------------------------------

\* the symbols are in ascending width order, symbols of equal width in the
\* order of the effective universe
IsStablySorted(symbols, universe) ==
    \A i, j \in DOMAIN symbols :
        i < j =>
            \/ RatLess(WidthOf(symbols[i]), WidthOf(symbols[j]))
            \/ /\ WidthOf(symbols[i]) = WidthOf(symbols[j])
               /\ IndexOf(universe, symbols[i]) < IndexOf(universe, symbols[j])

\* C29: the records computed by run_pre_market are in ascending cpr_width_pct
\* order, records of equal width in the order of their symbols in the effective
\* universe (the configured order without the omitted symbols); this holds of
\* filtered_symbols and of tradable_symbols.
C29_StableSortByWidth ==
    PreMarketReturned =>
        /\ IsStablySorted(LastSnapshot.filtered_symbols, LastSnapshot.effective_universe)
        /\ IsStablySorted(LastSnapshot.tradable_symbols, LastSnapshot.effective_universe)
        /\ IsStablySorted(LastSnapshot.filtered_symbols, cfg.symbol_universe)

\* a run over a universe configured as B, A with both symbols of the same width
C29_Witness ==
    /\ PreMarketReturned
    /\ cfg.symbol_universe = <<"B", "A">>
    /\ LastSnapshot.filtered_symbols = <<"B", "A">>
    /\ LastSnapshot.tradable_symbols = <<"B", "A">>
    /\ WidthOf("A") = WidthOf("B")

\* C30: when persist_symbol_data fails during run_pre_market the run goes on:
\* every symbol with a row is in filtered_symbols, the under-threshold ones are
\* tradable up to top_n, and the snapshot is built and published; a later gap
\* snapshot has an entry for every tradable record, persisted or not.
C30_SymbolPersistFailureKeepsRecord ==
    /\ (ddp_last.op = "run_pre_market" /\ ddp_last.fails = {"persist_symbol_data(A)"}) =>
          /\ ~ddp_last.raised
          /\ Len(ddp_published) = 1
          /\ ddp_published[1].type = "DerivedUniverseSnapshot"
          /\ Elements(LastSnapshot.filtered_symbols)
                = Elements(LastSnapshot.effective_universe) \cap DOMAIN LastTable
          /\ Len(LastSnapshot.filtered_symbols)
                = Cardinality(Elements(LastSnapshot.filtered_symbols))
          /\ Elements(LastSnapshot.tradable_symbols) \subseteq UnderThresholdSymbols
          /\ Len(LastSnapshot.tradable_symbols)
                = Min(cfg.top_n, Cardinality(UnderThresholdSymbols))
          /\ SymbolsOf(ddp.filtered_records) = LastSnapshot.filtered_symbols
          /\ SymbolsOf(ddp.tradable_records) = LastSnapshot.tradable_symbols
    /\ (SessionStartHandled /\ ddp_published # <<>>) =>
          [i \in DOMAIN ddp_published[1].event.gaps |-> ddp_published[1].event.gaps[i].symbol]
              = SymbolsOf(ddp.tradable_records)

\* a gap snapshot has an entry for a symbol whose record could not be persisted
\* while the record of another symbol of the run was
C30_Witness ==
    /\ SessionStartHandled
    /\ Len(ddp_published) = 1
    /\ \E i \in DOMAIN ddp_published[1].event.gaps :
          ddp_published[1].event.gaps[i].symbol \notin DOMAIN store.symbols
    /\ \E i \in DOMAIN ddp.filtered_records :
          ddp.filtered_records[i].symbol \in DOMAIN store.symbols
    /\ pm_runs # <<>>
    /\ pm_runs[Len(pm_runs)].tradable_symbols = SymbolsOf(ddp.tradable_records)

\* ------------------------------------------------------------------------
\* Claims about the store's accessors
\* ------------------------------------------------------------------------
\* the ladder get_stop_for_step was asked about, when the symbol has a record
AskedLadder ==
    IF store_last.side = "pos"
    THEN store.symbols[store_last.symbol].target_range_pos
    ELSE store.symbols[store_last.symbol].target_range_neg

AskedInsideLadder ==
    /\ store_last.symbol \in DOMAIN store.symbols
    /\ 0 <= store_last.step_index
    /\ store_last.step_index < Len(AskedLadder)

DirectCalls(calls) == SelectSeq(calls, LAMBDA c : c.depth = 0)

\* the handlers subscribed under event_type, in subscription order
Subscribed(subs, event_type) ==
    IF event_type \in DOMAIN subs THEN subs[event_type] ELSE <<>>

\* C24: publish(key, payload) calls the handlers subscribed under the key, one
\* call for each subscription, with the payload, in subscription order, all
\* of it done when publish returns, and calls no handler for a subscription
\* under another key; publishing a key without subscribers does nothing
C24_PublishCallsSubscribersInOrder ==
    [][eb_last'.op = "publish" =>
          LET direct == DirectCalls(eb_calls')
              subscribed == Subscribed(eb_subscribers, eb_last'.event_type)
          IN /\ Len(direct) = Len(subscribed)
             /\ \A i \in 1..Len(direct) :
                    /\ direct[i].handler = subscribed[i]
                    /\ direct[i].payload = eb_last'.payload
                    /\ direct[i].event_type = eb_last'.event_type
             /\ eb_subscribers' = eb_subscribers
             /\ subscribed = <<>> => eb_calls' = <<>>]_vars

\* a publish under a key with two different subscribers, while another handler
\* is subscribed under the other key only
C24_Witness ==
    /\ eb_last.op = "publish"
    /\ Len(Subscribed(eb_subscribers, eb_last.event_type)) = 2
    /\ Subscribed(eb_subscribers, eb_last.event_type)[1]
           # Subscribed(eb_subscribers, eb_last.event_type)[2]
    /\ \E k \in DOMAIN eb_subscribers \ {eb_last.event_type} :
           \E i \in 1..Len(eb_subscribers[k]) :
               \A j \in 1..2 :
                   eb_subscribers[k][i] # Subscribed(eb_subscribers, eb_last.event_type)[j]
    /\ Len(eb_calls) = 2

\* ------------------------------------------------------------------------
\* Claims about the replay loader
\* ------------------------------------------------------------------------
\* a replay_next call that changed something (a call after the archive's end
\* that follows another one leaves every variable as it is)
Replays == rl_last' # rl_last \/ rl_ticks' # rl_ticks

\* C25: replay_next delivers the recorded ticks one per call in their recorded
\* order; it sets the replay clock to the tick's timestamp before the tick is
\* delivered, so that a tick subscriber reads that timestamp from the clock,
\* and returns true; once the archive is exhausted it returns false, publishes
\* nothing and leaves the clock unchanged, on that call and on every later one
C25_ReplayInOrderWithClock ==
    [][Replays =>
          /\ rl_published' \o rl_ticks' = rl_archive
          /\ IF rl_ticks # <<>>
             THEN /\ rl_last'.result = TRUE
                  /\ rl_published' = Append(rl_published, Head(rl_ticks))
                  /\ rl_clock' = Head(rl_ticks).timestamp
                  /\ Len(rl_last'.delivered) = Len(Subscribed(eb_subscribers, "TickEvent"))
                  /\ \A i \in 1..Len(rl_last'.delivered) :
                         /\ rl_last'.delivered[i].handler
                               = Subscribed(eb_subscribers, "TickEvent")[i]
                         /\ rl_last'.delivered[i].tick = Head(rl_ticks)
                         /\ rl_last'.delivered[i].now = Head(rl_ticks).timestamp
             ELSE /\ rl_last'.result = FALSE
                  /\ rl_last'.delivered = <<>>
                  /\ rl_published' = rl_published
                  /\ rl_clock' = rl_clock
                  /\ rl_ticks' = <<>>]_vars

\* the second tick of an archive reached a subscriber at another clock reading
\* than the first
C25_Witness ==
    /\ rl_last.op = "replay_next"
    /\ rl_last.result
    /\ Len(rl_published) = 2
    /\ rl_published[1].timestamp # rl_published[2].timestamp
    /\ rl_last.delivered # <<>>
    /\ rl_last.delivered[1].now = rl_published[2].timestamp

\* the archive is exhausted and replay_next has said so
C25_WitnessExhausted ==
    /\ rl_last.op = "replay_next"
    /\ ~rl_last.result
    /\ Len(rl_published) = MaxArchive
    /\ rl_clock # ReplayStart

\* ------------------------------------------------------------------------
\* Further claims about the candle builder
\* ------------------------------------------------------------------------
\* the volume of the first k candles emitted as closed that belong to symbol,
\* as they were when they were emitted
RECURSIVE ClosedVolume(_, _)
ClosedVolume(symbol, k) ==
    IF k = 0 THEN 0
    ELSE ClosedVolume(symbol, k - 1)
         + (IF closed_snapshot[k].symbol = symbol THEN closed_snapshot[k].volume ELSE 0)

\* the volume of the symbol's open candle, 0 when it has none
OpenVolume(symbol) ==
    IF current_candles[symbol] = None THEN 0
    ELSE candle_heap[current_candles[symbol]].volume

\* C35: for each symbol the volumes of all its ticks processed add up to the
\* volumes of its candles emitted as closed plus the volume of its open
\* candle; a closed candle's volume stays what it was when it was emitted
C35_VolumeConserved ==
    /\ \A symbol \in Symbols :
           tick_volume[symbol] = ClosedVolume(symbol, Len(closed_snapshot)) + OpenVolume(symbol)
    /\ \A k \in 1..Len(closed_log) :
           candle_heap[closed_log[k]].volume = closed_snapshot[k].volume

\* a symbol has a closed candle of two ticks and an open candle of a later tick
C35_Witness ==
    \E symbol \in Symbols :
        /\ tick_volume[symbol] >= 3
        /\ ClosedVolume(symbol, Len(closed_snapshot)) >= 2
        /\ OpenVolume(symbol) >= 1
        /\ Len(closed_ticks) = 2

\* C36: process_tick for a tick of one symbol leaves the open candle of every
\* other symbol as it is, and the candles it returns and _on_tick emits, the
\* closed one included, are candles of the tick's symbol
C36_SymbolsIndependent ==
    [][n_ticks' = n_ticks + 1 =>
          LET tick == last_tick'.tick
          IN /\ \A other \in Symbols \ {tick.symbol} :
                    /\ current_candles'[other] = current_candles[other]
                    /\ current_candles[other] # None =>
                           candle_heap'[current_candles[other]]
                               = candle_heap[current_candles[other]]
             /\ candle_heap'[tick_result'.update].symbol = tick.symbol
             /\ tick_result'.closed # None =>
                    candle_heap'[tick_result'.closed].symbol = tick.symbol
             /\ \A i \in 1..Len(bus_log') :
                    candle_heap'[bus_log'[i].payload].symbol = tick.symbol]_vars

\* a tick of one symbol closed that symbol's candle while the other symbol
\* had an open candle
C36_Witness ==
    /\ n_ticks >= 3
    /\ tick_result.closed # None
    /\ \A symbol \in Symbols : current_candles[symbol] # None

\* ------------------------------------------------------------------------
\* Further claims about the strategy
\* ------------------------------------------------------------------------
\* this step delivers a non-empty gap snapshot to the Armed strategy of run r
ReselectsWhileArmed(r) ==
    /\ Delivers("GapSnapshotEvent")
    /\ last_input'.gaps # <<>>
    /\ Armed(r)

\* the selection of this step: the first entry with the least gap_pct_abs is
\* chosen, step_index is 1 again and one step-1 IntentEvent is the active one
SelectsAnew(r) ==
    LET gaps == last_input'.gaps
    IN \E i \in DOMAIN gaps :
           /\ IsFirstMinimum(gaps, i)
           /\ PublishedOne(r, gaps[i].symbol, 1)

\* C37: a non-empty gap snapshot received while the strategy is Armed starts a
\* new selection: the symbol is chosen again by minimum gap_pct_abs, step_index
\* is 1 again also when the same symbol is chosen, a new step-1 IntentEvent is
\* published and is the active one, and fills for the intent that was active
\* before are ignored from then on: the active intent id is no longer the one
\* that such a fill carries
C37_ReselectionSupersedes ==
    [][\A r \in Runs :
          ReselectsWhileArmed(r) =>
              /\ SelectsAnew(r)
              /\ strat'[r].active_intent_id # strat[r].active_intent_id]_vars

\* the part of C37 that does not depend on the intent ids: the new selection
\* restarts at step 1 with one new IntentEvent
C37_ReselectionRestartsAtStepOne ==
    [][\A r \in Runs : ReselectsWhileArmed(r) => SelectsAnew(r)]_vars

\* the strategies were at step 2 of a symbol and a gap snapshot made them select
\* the same symbol again
C37_ReselectedSameSymbol ==
    /\ last_input.kind = "GapSnapshotEvent"
    /\ n_inputs = 3
    /\ \A r \in Runs :
          /\ strat[r].step_index = 1
          /\ strat[r].n_published = 3
          /\ Len(strat[r].published) = 1

\* ------------------------------------------------------------------------
\* Claims about the target ladders and the stored records
\* ------------------------------------------------------------------------
\* num_steps = round(max_pct / step_pct) + 1
NumSteps == Round(RatDiv(target_max_pct, target_step_pct)) + 1

\* the ladders of a record have the shape C33 describes
LadderShape(record) ==
    LET pos == record.target_range_pos
        neg == record.target_range_neg
        prev_close == Rat(record.prev_close, 1)
    IN /\ Len(pos) = NumSteps
       /\ Len(neg) = NumSteps
       /\ pos[1] = prev_close
       /\ neg[1] = prev_close
       /\ \A i \in 1..NumSteps :
              RatAdd(pos[i], neg[i]) = RatMul(Rat(2, 1), prev_close)
       /\ record.prev_close > 0 =>
              \A i \in 1..(NumSteps - 1) :
                  /\ RatLess(pos[i], pos[i + 1])
                  /\ RatLess(neg[i + 1], neg[i])

PreMarketReturns ==
    /\ n_ops' = n_ops + 1
    /\ ddp_last'.op = "run_pre_market"
    /\ ~ddp_last'.raised

\* the symbols for which the run of this step computed a record
ComputedSymbols == Elements(ddp_published'[1].event.filtered_symbols)

\* get_symbol_data(symbol) returns, after this step, the record built from the
\* symbol's entry in the table of the run of this step
ReturnsThisRunsRecord(symbol) ==
    /\ symbol \in DOMAIN store'.symbols
    /\ store'.symbols[symbol] = DerivedRecords[symbol][LastTable'[symbol]]
    /\ store'.symbols[symbol].prev_high = LastTable'[symbol].high
    /\ store'.symbols[symbol].prev_low = LastTable'[symbol].low
    /\ store'.symbols[symbol].prev_close = LastTable'[symbol].close

\* a stored record changes in no other way than by a run_pre_market call that
\* computes a record for its symbol and stores that one in its place (a call
\* that raised at the snapshot has stored the records it built before)
NeverModifiedInPlace ==
    \A symbol \in DOMAIN store.symbols :
        \/ /\ symbol \in DOMAIN store'.symbols
           /\ store'.symbols[symbol] = store.symbols[symbol]
        \/ /\ PreMarketReturns
           /\ symbol \in ComputedSymbols
           /\ ReturnsThisRunsRecord(symbol)
        \/ /\ n_ops' = n_ops + 1
           /\ ddp_last'.op = "run_pre_market"
           /\ ddp_last'.raised
           /\ symbol \in DOMAIN store'.symbols
           /\ \E i \in DOMAIN ddp'.filtered_records :
                  ddp'.filtered_records[i] = store'.symbols[symbol]

AccessorsUnchanged(symbol) ==
    \A side \in Sides :
        /\ \A step_index \in StepIndexes :
               get_target_by_step(store', symbol, step_index, side)
                   = get_target_by_step(store, symbol, step_index, side)
        /\ \A step_index \in (0 - 1)..Len(flip_steps_pct) :
               get_flip_for_step(store', symbol, step_index, side)
                   = get_flip_for_step(store, symbol, step_index, side)
        /\ \A step_index \in {1, MaxTargetSteps + 1} :
               get_stop_for_step(store', symbol, step_index, side)
                   = get_stop_for_step(store, symbol, step_index, side)
        /\ get_target_by_step(store', symbol, 1, side) # NoPrice
        /\ get_stop_for_step(store', symbol, 1, side) # NoPrice
        /\ get_flip_for_step(store', symbol, 1, side) # NoPrice

\* C39: run_pre_market never removes a record from the store: a record an
\* earlier run persisted for a symbol is still returned by get_symbol_data, and
\* by the target, flip and stop accessors, after a later run in which the
\* symbol is omitted from the universe or missing from the OHLC table; the set
\* of symbols with a stored record only grows
C39_StoreOnlyGrows ==
    [][\A symbol \in DOMAIN store.symbols :
          /\ symbol \in DOMAIN store'.symbols
          /\ (n_ops' = n_ops + 1 /\ ddp_last'.op = "run_pre_market"
                /\ \A i \in DOMAIN ddp'.filtered_records :
                       ddp'.filtered_records[i].symbol # symbol) =>
                 /\ store'.symbols[symbol] = store.symbols[symbol]
                 /\ AccessorsUnchanged(symbol)]_vars

\* after a symbol was taken out of the universe a run went by without it, and
\* the store has its record and that of a symbol missing from the run's table
C39_Witness ==
    /\ PreMarketReturned
    /\ "A" \in DOMAIN store.symbols
    /\ "A" \notin Elements(cfg.symbol_universe)
    /\ "A" \notin Elements(LastSnapshot.filtered_symbols)
    /\ \E symbol \in DOMAIN store.symbols :
          symbol \in Elements(LastSnapshot.symbols_missing_prev_day_ohlc)


\* ------------------------------------------------------------------------
\* Claims about the published step and the ladder
\* ------------------------------------------------------------------------
\* a store that holds the record run_pre_market computes for the symbol
StoreWithRecordOf(symbol) ==
    [symbols |-> [s \in {symbol} |-> DerivedRecords[symbol][RowZero]]]

\* the step of an IntentEvent is a position of the symbol's target ladder at
\* which get_target_by_step returns a price on both sides
ValidLadderPosition(intent) ==
    LET step_index == intent.triggers[1].step_index
    IN /\ 1 <= step_index
       /\ step_index <= NumSteps - 1
       /\ \A side \in Sides :
              get_target_by_step(StoreWithRecordOf(intent.symbol), intent.symbol,
                                 step_index, side) # NoPrice

\* C38: the step_index of every published IntentEvent is a valid position of the
\* target ladder, 1 <= step_index <= num_steps - 1, for any number of matching
\* fills: auto-advance never publishes an intent for a step at which
\* get_target_by_step returns none
C38_StepIndexWithinLadder ==
    \A r \in Runs :
        \A i \in DOMAIN strat[r].published : ValidLadderPosition(strat[r].published[i])

\* the intent published for the selection is at a valid ladder position: the
\* part of C38 that holds before any fill
C38_FirstStepWithinLadder ==
    \A r \in Runs :
        \A i \in DOMAIN strat[r].published :
            strat[r].published[i].triggers[1].step_index = 1 =>
                ValidLadderPosition(strat[r].published[i])

\* matching fills advanced the strategies to the step after the last ladder entry
C38_AdvancedPastLadder ==
    \A r \in Runs :
        /\ Len(strat[r].published) = 1
        /\ strat[r].step_index = NumSteps
        /\ strat[r].published[1].triggers[1].step_index = NumSteps


\* ------------------------------------------------------------------------
\* Claims about the wired components
\* ------------------------------------------------------------------------
\* the positions of the log at which publish is entered (or returns) for an event
\* of the type
LogPositions(op, type) == {i \in DOMAIN pl_log : pl_log[i].op = op /\ pl_log[i].type = type}

\* the events published by the three components during the last operation, in
\* the order of their publish calls
ComponentPublishes ==
    SelectSeq(pl_log, LAMBDA e : e.op = "publish" /\ e.type # "OrderFillEvent")

\* the last operation was the closed candle that starts the first session
FirstSessionCandle == pl_last.op = "on_candle_closed" /\ pl_last.sessions = 0

\* the publish of the type was entered at position i and returned at position j
\* of the log, at the depth
PublishedAt(type, depth, i, j) ==
    /\ i < j
    /\ pl_log[i].op = "publish" /\ pl_log[i].type = type /\ pl_log[i].depth = depth
    /\ pl_log[j].op = "return" /\ pl_log[j].type = type /\ pl_log[j].depth = depth

\* C31: with the detector, the gap detector and a strategy wired to one
\* synchronous bus, the closed candle that starts the first session produces
\* "session started", then the GapSnapshot, then the strategy's step-1
\* IntentEvent, in this order and all before the detector's publish of "session
\* started" returns: the publish of each is entered inside the delivery of the
\* one before it, and the return of "session started" is the last entry of the
\* candle's log (without tradable records "session started" is all there is)
C31_SessionStartChain ==
    FirstSessionCandle =>
        /\ PublishedAt("SessionStartEvent", 1, 1, Len(pl_log))
        /\ IF wired.ddp.tradable_records = <<>>
           THEN Len(ComponentPublishes) = 1
           ELSE /\ [i \in DOMAIN ComponentPublishes |-> ComponentPublishes[i].type]
                     = <<"SessionStartEvent", "GapSnapshotEvent", "IntentEvent">>
                /\ ComponentPublishes[3].intent_id.step_index = 1
                /\ \E i, j, k, l \in DOMAIN pl_log :
                       /\ PublishedAt("GapSnapshotEvent", 2, i, l)
                       /\ PublishedAt("IntentEvent", 3, j, k)
                       /\ 1 < i /\ i < j /\ k < l /\ l < Len(pl_log)

\* the first candle found tradable records: all three events were published
C31_Witness ==
    /\ FirstSessionCandle
    /\ wired.ddp.tradable_records # <<>>
    /\ Len(ComponentPublishes) = 3
    /\ wired.strat.n_published = 1
    /\ wired.strat.step_index = 1

\* C34: at the moment an IntentEvent is delivered to the bus subscribers the
\* strategy's active intent id is that intent's id, so a fill acknowledgement
\* for it that a subscriber issues from inside the delivery is matched and, with
\* auto_advance, advances the step: the next step's IntentEvent is published
\* before the fill's publish returns
C34_ActiveWhileDelivered ==
    \A i \in LogPositions("publish", "IntentEvent") :
        /\ pl_log[i].active_intent_id = pl_log[i].intent_id
        /\ \A j \in LogPositions("publish", "OrderFillEvent") :
               (j = i + 1 /\ auto_advance) =>
                   /\ pl_log[j + 1].op = "publish"
                   /\ pl_log[j + 1].type = "IntentEvent"
                   /\ pl_log[j + 1].intent_id.step_index = pl_log[i].intent_id.step_index + 1

\* the part of C34 that holds: once the only publish of an IntentEvent in an
\* operation has returned, the active intent id is that intent's id
C34_ActiveAfterDelivery ==
    \A i \in LogPositions("publish", "IntentEvent") :
        Cardinality(LogPositions("publish", "IntentEvent")) = 1 =>
            wired.strat.active_intent_id = pl_log[i].intent_id

\* a fill was acknowledged from inside the delivery of the first intent and the
\* strategy is still at step 1
C34_AcknowledgedInsideDelivery ==
    /\ FirstSessionCandle
    /\ auto_advance
    /\ LogPositions("publish", "OrderFillEvent") # {}
    /\ wired.strat.step_index = 1
    /\ wired.strat.n_published = 1

\* C40: with one strategy wired to the detector and the gap detector over a
\* multi-day candle stream, at every date change "session ended" has reached
\* the strategy (its publish has returned and the strategy is inactive) before
\* the GapSnapshot of the new session is published, so IntentEvents are
\* published only during the first session: by the candle that starts it and by
\* fills that arrive before the second session starts
C40_IntentsOnlyInFirstSession ==
    /\ \A i \in LogPositions("publish", "GapSnapshotEvent") :
           pl_last.sessions > 0 =>
               /\ ~pl_log[i].active
               /\ \E j \in LogPositions("return", "SessionEndEvent") : j < i
    /\ LogPositions("publish", "IntentEvent") # {} =>
           \/ FirstSessionCandle
           \/ pl_last.op = "OrderFillEvent" /\ pl_last.sessions = 1

\* the strategy published an intent in the first session and the candle that
\* starts a later session produced a GapSnapshot and no intent
C40_Witness ==
    /\ pl_last.op = "on_candle_closed"
    /\ pl_last.sessions > 0
    /\ LogPositions("publish", "GapSnapshotEvent") # {}
    /\ LogPositions("publish", "IntentEvent") = {}
    /\ wired.strat.n_published > 0

====
